---- MODULE Spec2Model ----
(***************************************************************************)
(* A model of the segmented download engine of m3u8_go:                    *)
(*   - the Transfer Unit (SmartDownloadScheduler._perform_download,        *)
(*     _standard_download, OptimizedDownloader.download_segment),          *)
(*   - the Retry Policy and the Scheduler (SmartDownloadScheduler:         *)
(*     add_task, start, _schedule_loop, _cleanup_completed_downloads,      *)
(*     _download_worker, record_task_completion),                          *)
(*   - the progress accessor BatchDownloader.get_task_progress,            *)
(*   - the concurrency limit of AdaptiveThreadPool (record_performance,    *)
(*     _adjust_thread_count).                                              *)
(*   - the submission of an asset (BatchDownloader.add_m3u8_task,          *)
(*     _calculate_segment_priority) and the telemetry accessors.           *)
(*   - the application's DownloadQueue and the traditional download path   *)
(*     (main.py: _download_m3u8_traditional).                              *)
(*                                                                         *)
(* Spec, FairSpec : one scheduler, its admission loop thread and one worker *)
(*                  thread per admitted task; FairSpec adds fairness.      *)
(* ProgressSpec   : FairSpec polled by get_task_progress.                  *)
(* RetrySpec      : one task and its worker, with every kind of answer.    *)
(* QueueSpec      : tasks of every priority and the admission loop.        *)
(* TransferSpec   : the transfer functions applied to one destination      *)
(*                  path, from every small on-disk state and for every     *)
(*                  small server answer.                                   *)
(* StopSpec       : FairSpec with a thread calling stop().                 *)
(* StartSpec      : threads calling start() and stop() on one scheduler.   *)
(* UrgentSpec     : QueueSpec with add_urgent_task.                        *)
(* ConcurrentSpec : QueueSpec with clear_queue, one entry at a time.       *)
(* PoolSpec       : AdaptiveThreadPool of every small size, fed with few   *)
(*                  samples of every kind.                                 *)
(* WindowSpec     : one AdaptiveThreadPool fed with more samples than an   *)
(*                  adjustment looks at.                                   *)
(* PrioritySpec   : _calculate_segment_priority applied to every small     *)
(*                  index, total and base priority.                        *)
(* BatchSpec      : BatchDownloader.add_m3u8_task called for few assets,   *)
(*                  more than once.                                        *)
(* PollSpec       : FairSpec with a thread calling the telemetry           *)
(*                  accessors.                                             *)
(* RecordSpec     : record_performance called by several threads at once.  *)
(* DownloadQueueSpec, DownloadQueueFairSpec : the DownloadQueue of the     *)
(*                  application (download_queue.py) with the TaskManager,  *)
(*                  the user-interface thread and the download threads;    *)
(*                  the second adds fairness.                              *)
(* BacklogSpec    : the DownloadQueue with one slot and one task more.     *)
(* TraditionalSpec: _download_m3u8_traditional, its semaphore and its      *)
(*                  segment threads.                                       *)
(* StatusSpec     : BatchDownloader.get_all_tasks_status and               *)
(*                  get_task_progress while assets are registered.         *)
(* ExecutorSpec   : AdaptiveThreadPool.submit called while                 *)
(*                  _adjust_thread_count replaces the executor.            *)
(***************************************************************************)
EXTENDS Integers, Sequences, FiniteSets, TLC

(***************************************************************************)
(* Bounds of the model.                                                    *)
(***************************************************************************)
\* number of admission loop threads ever created for one scheduler
MaxLoopThreads == 4

\* number of tasks submitted to the scheduler
NumTasks == 3
\* max_concurrent_downloads given to the scheduler's constructor
MaxConcurrent == 2
\* largest retry_count given to a task
MaxRetries == 2
\* longest file content / response body, in bytes
MaxFileLen == 2
\* number of transfer calls made one after the other on the same path
MaxCalls == 2
\* largest max_workers given to an AdaptiveThreadPool
MaxWorkers == 4
\* number of samples recorded by a pool fed with every kind of sample
MaxSamples == 4
\* number of samples recorded beyond the adjustment window by a pool fed
\* with successes and failures only
MaxOlder == 2
\* largest segment index and largest number of segments given to
\* _calculate_segment_priority
MaxIndex == 4
MaxTotal == 41
\* number of add_m3u8_task calls, and of segments in one call
MaxSubmissions == 2
MaxSegments == 4
MaxRecorders == 2
MaxRecorded == 3
MaxQueued == 2
MaxStarts == 2
MaxLimit == 2
\* largest thread_count of a task downloaded the traditional way
MaxPermits == 2
\* number of threads calling AdaptiveThreadPool.submit at once
MaxSubmitters == 2

(***************************************************************************)
(* Program constants.                                                      *)
(***************************************************************************)
\* max_attempts = 3 in _perform_download
MAX_ATTEMPTS == 3
\* DownloadPriority values
LOW == 0
NORMAL == 1
HIGH == 2
URGENT == 3
\* HTTP status codes the transfer tells apart
HTTP_OK == 200
HTTP_PARTIAL == 206
HTTP_NOT_FOUND == 404
HTTP_RANGE_NOT_SATISFIABLE == 416
HTTP_SERVER_ERROR == 500
\* raise_for_status raises from this status code on
HTTP_ERROR_FROM == 400
\* AdaptiveThreadPool: samples needed before an adjustment, samples an
\* adjustment looks at, samples kept, and the two steps
MIN_SAMPLES == 3
WINDOW == 10
METRICS_KEPT == 100
INCREASE_STEP == 2
DECREASE_STEP == 1
\* _calculate_segment_priority: the segments before this index are urgent
FIRST_SEGMENTS == 3

Priorities == {LOW, NORMAL, HIGH, URGENT}

(***************************************************************************)
(* Files.  A path either holds no file or a file with a byte sequence.     *)
(* A file system state here is the pair of the two paths one task uses:    *)
(* dest (task.filepath) and tmp (task.filepath + ".tmp").                  *)
(***************************************************************************)
NoFile == [exists |-> FALSE, data |-> <<>>]

File(d) == [exists |-> TRUE, data |-> d]

Getsize(f) == Len(f.data)

RECURSIVE SeqsUpTo(_, _)
SeqsUpTo(n, bytes) ==
  IF n = 0 THEN {<<>>}
  ELSE LET shorter == SeqsUpTo(n - 1, bytes)
       IN shorter \cup {Append(s, b) : s \in {x \in shorter : Len(x) = n - 1}, b \in bytes}

\* what is on disk before the first call, and what a server sends
OnDisk == SeqsUpTo(MaxFileLen, {0})

Bodies == SeqsUpTo(MaxFileLen, {1})

Files == {NoFile} \cup {File(d) : d \in OnDisk}

EmptyDisk == [dest |-> NoFile, tmp |-> NoFile]

(***************************************************************************)
(* What the outside world answers to one transfer call.                    *)
(*   timeouts     : how many session.get calls in a row raise Timeout or   *)
(*                  ConnectionError before the server answers              *)
(*   status       : the status code of the answer                          *)
(*   body         : the bytes iter_content delivers                        *)
(*   has_length   : the answer carries a content-length header             *)
(*   open_error   : open(temp_filepath, mode) raises IOError               *)
(*   stream_error : after the bytes of body were written, iter_content or  *)
(*                  f.write raises (connection reset, disk full)           *)
(***************************************************************************)
Response(n, st, b, hl, oe, se) ==
  [timeouts |-> n, status |-> st, body |-> b, has_length |-> hl,
   open_error |-> oe, stream_error |-> se]

\* every answer within the bounds; a request that never gets an answer has
\* no status or body to tell apart
Responses ==
  {Response(0, st, b, hl, oe, se) :
     st \in {HTTP_OK, HTTP_PARTIAL, HTTP_RANGE_NOT_SATISFIABLE}, b \in Bodies, hl \in BOOLEAN,
     oe \in BOOLEAN, se \in BOOLEAN}
  \cup {Response(0, st, <<>>, FALSE, FALSE, FALSE) : st \in {HTTP_NOT_FOUND, HTTP_SERVER_ERROR}}
  \cup {Response(n, HTTP_OK, <<1>>, TRUE, FALSE, FALSE) : n \in {1, MAX_ATTEMPTS}}

(***************************************************************************)
(* SmartDownloadScheduler._standard_download.                              *)
(* Bodies of the model are far below the 10 MiB large-object threshold, so *)
(* _perform_download always takes this branch (line 830).                  *)
(***************************************************************************)
OpenModeTruncate(downloaded_bytes) == "wb"

OpenMode(downloaded_bytes) == IF downloaded_bytes > 0 THEN "ab" ELSE "wb"

StandardDownload(resp, tmp, downloaded_bytes) ==
  LET mode == OpenMode(downloaded_bytes)
      opened == IF mode = "ab" THEN tmp.data ELSE <<>>
  IN IF resp.open_error
       THEN \* open raised: caught by `except Exception`, nothing written
            [ok |-> FALSE, downloaded_bytes |-> downloaded_bytes, tmp |-> tmp]
       ELSE [ok |-> ~resp.stream_error,
             downloaded_bytes |-> downloaded_bytes + Len(resp.body),
             tmp |-> File(opened \o resp.body)]

(***************************************************************************)
(* SmartDownloadScheduler._perform_download: the returned                  *)
(* (success, downloaded_bytes, total_bytes), the files it leaves and the   *)
(* number of HTTP requests it sent.                                        *)
(***************************************************************************)
Returned(ok, downloaded_bytes, total_bytes, disk, requests) ==
  [ok |-> ok, downloaded_bytes |-> downloaded_bytes, total_bytes |-> total_bytes,
   disk |-> disk, requests |-> requests]

ExistingFileResultZero(disk) == Returned(TRUE, 0, 0, disk, 0)

ExistingFileResult(disk) ==
  Returned(TRUE, Getsize(disk.dest), Getsize(disk.dest), disk, 0)

RangeNotSatisfiableKeepTmp(disk, requests) ==
  Returned(TRUE, Getsize(disk.tmp), Getsize(disk.tmp), disk, requests)

RangeNotSatisfiable(disk, requests) ==
  \* os.rename(temp_filepath, task.filepath); size of the renamed file
  Returned(TRUE, Getsize(disk.tmp), Getsize(disk.tmp),
           [dest |-> disk.tmp, tmp |-> NoFile], requests)

StartOffsetKept(status, resumed) == resumed

\* the offset the transfer writes from: a 200 answer resets downloaded_bytes
\* to 0 (lines 752-757), a 206 answer keeps the size of the temp file
StartOffset(status, resumed) ==
  IF status \in {HTTP_OK, HTTP_RANGE_NOT_SATISFIABLE} THEN 0 ELSE resumed

PerformDownload(disk, resp) ==
  IF disk.dest.exists THEN ExistingFileResult(disk)
  ELSE
    LET resumed == IF disk.tmp.exists THEN Getsize(disk.tmp) ELSE 0
    IN IF resp.timeouts >= MAX_ATTEMPTS
         THEN \* the last Timeout / ConnectionError is re-raised and caught
              \* by `except requests.exceptions.RequestException`
              Returned(FALSE, resumed, 0, disk, MAX_ATTEMPTS)
       ELSE
         LET requests == resp.timeouts + 1
         IN IF resp.status = HTTP_RANGE_NOT_SATISFIABLE /\ disk.tmp.exists
              THEN RangeNotSatisfiable(disk, requests)
            ELSE IF resp.status = HTTP_NOT_FOUND
              THEN Returned(FALSE, 0, 0, disk, requests)
            ELSE IF resp.status \notin {HTTP_OK, HTTP_PARTIAL, HTTP_RANGE_NOT_SATISFIABLE}
                    /\ resp.status >= HTTP_ERROR_FROM
              THEN \* raise_for_status: HTTPError, a RequestException
                   Returned(FALSE, resumed, 0, disk, requests)
            ELSE
              LET downloaded_bytes == StartOffset(resp.status, resumed)
                  total_bytes ==
                    IF resp.has_length THEN Len(resp.body) + downloaded_bytes ELSE 0
                  sd == StandardDownload(resp, disk.tmp, downloaded_bytes)
              IN IF sd.ok /\ sd.tmp.exists
                   THEN Returned(TRUE, sd.downloaded_bytes,
                                 IF total_bytes # 0 THEN total_bytes ELSE sd.downloaded_bytes,
                                 [dest |-> sd.tmp, tmp |-> NoFile], requests)
                   ELSE Returned(FALSE, sd.downloaded_bytes, 0,
                                 [dest |-> disk.dest, tmp |-> sd.tmp], requests)

(***************************************************************************)
(* OptimizedDownloader.download_segment (stop_check = None, no speed       *)
(* limit).  resps holds the answers to the GET requests it may send: two   *)
(* per attempt, the ranged request and the request repeated without Range. *)
(* It returns a bool; progress is the last (downloaded, total) handed to   *)
(* progress_callback.                                                      *)
(***************************************************************************)
NoProgress == [reported |-> FALSE, downloaded_bytes |-> 0, total_bytes |-> 0]

Progress(downloaded_bytes, total_bytes) ==
  [reported |-> TRUE, downloaded_bytes |-> downloaded_bytes, total_bytes |-> total_bytes]

SegmentReturned(ok, disk, requests, progress) ==
  [ok |-> ok, disk |-> disk, requests |-> requests, progress |-> progress]

SegmentExistingFile(disk) ==
  SegmentReturned(TRUE, disk, 0, Progress(Getsize(disk.dest), Getsize(disk.dest)))

RECURSIVE SegmentAttempts(_, _, _, _, _, _, _)
SegmentAttempts(disk, downloaded_bytes, resps, attempt, max_retries, requests, progress) ==
  LET first == resps[2 * attempt + 1]
      second == resps[2 * attempt + 2]
      \* except Exception: sleep and try again, or re-raise on the last attempt
      Failed(dk, db, rq, pg) ==
        IF attempt < max_retries
          THEN SegmentAttempts(dk, db, resps, attempt + 1, max_retries, rq, pg)
          ELSE SegmentReturned(FALSE, dk, rq, pg)
      Receive(resp, db, rq) ==
        LET segment_size == IF resp.has_length THEN Len(resp.body) + db ELSE 0
            opened == IF db > 0 THEN disk.tmp.data ELSE <<>>
            written == File(opened \o resp.body)
            after == db + Len(resp.body)
            pg == IF Len(resp.body) > 0 THEN Progress(after, segment_size) ELSE progress
        IN IF resp.open_error THEN Failed(disk, db, rq, progress)
           ELSE IF resp.stream_error
             THEN Failed([dest |-> disk.dest, tmp |-> written], after, rq, pg)
           ELSE SegmentReturned(TRUE, [dest |-> written, tmp |-> NoFile], rq, pg)
  IN IF first.timeouts > 0 THEN Failed(disk, downloaded_bytes, requests + 1, progress)
     ELSE IF downloaded_bytes > 0 /\ first.status = HTTP_PARTIAL
       THEN Receive(first, downloaded_bytes, requests + 1)
     ELSE IF downloaded_bytes = 0 \/ first.status = HTTP_OK
       THEN IF first.status >= HTTP_ERROR_FROM
              THEN Failed(disk, 0, requests + 1, progress)
              ELSE Receive(first, 0, requests + 1)
     ELSE IF second.timeouts > 0 \/ second.status >= HTTP_ERROR_FROM
       THEN Failed(disk, 0, requests + 2, progress)
     ELSE Receive(second, 0, requests + 2)

DownloadSegment(disk, resps, max_retries) ==
  IF disk.dest.exists THEN SegmentExistingFile(disk)
  ELSE SegmentAttempts(disk, IF disk.tmp.exists THEN Getsize(disk.tmp) ELSE 0,
                       resps, 0, max_retries, 0, NoProgress)

\* the max_retries and the answers download_segment is tried with
SegmentRetries == {0, 1}

SegmentResponses ==
  {Response(0, HTTP_PARTIAL, <<1>>, TRUE, FALSE, FALSE),
   Response(0, HTTP_OK, <<0>>, FALSE, FALSE, TRUE),
   Response(0, HTTP_SERVER_ERROR, <<>>, FALSE, FALSE, FALSE)}

(***************************************************************************)
(* DownloadTask and the pending queue.                                     *)
(* download_queue is a queue.PriorityQueue: a binary heap (heapq) of the   *)
(* task objects, ordered by DownloadTask.__lt__.  heap[i + 1] here is      *)
(* Python's heap[i].                                                       *)
(***************************************************************************)
DownloadTask(id, priority, retry_count) ==
  [task_id |-> id, priority |-> priority, retry_count |-> retry_count]

NoTask == DownloadTask(0, LOW, 0)

LtLowFirst(a, b) == a.priority < b.priority

\* DownloadTask.__lt__: "smaller" means higher priority
Lt(a, b) == a.priority > b.priority

\* heapq._siftdown(heap, startpos, pos) with newitem = heap[pos]
RECURSIVE SiftDown(_, _, _, _)
SiftDown(heap, startpos, pos, newitem) ==
  IF pos > startpos
    THEN LET parentpos == (pos - 1) \div 2
             parent == heap[parentpos + 1]
         IN IF Lt(newitem, parent)
              THEN SiftDown([heap EXCEPT ![pos + 1] = parent], startpos, parentpos, newitem)
              ELSE [heap EXCEPT ![pos + 1] = newitem]
    ELSE [heap EXCEPT ![pos + 1] = newitem]

\* the loop of heapq._siftup: move the smaller child up until a leaf is reached
RECURSIVE SiftUpLoop(_, _, _)
SiftUpLoop(heap, pos, newitem) ==
  LET endpos == Len(heap)
      childpos == 2 * pos + 1
      rightpos == childpos + 1
  IN IF childpos < endpos
       THEN LET child == IF rightpos < endpos /\ ~Lt(heap[childpos + 1], heap[rightpos + 1])
                           THEN rightpos ELSE childpos
            IN SiftUpLoop([heap EXCEPT ![pos + 1] = heap[child + 1]], child, newitem)
       ELSE SiftDown([heap EXCEPT ![pos + 1] = newitem], 0, pos, newitem)

HeapPushOverwrite(heap, item) ==
  IF heap = <<>> THEN <<item>>
  ELSE SiftDown([heap EXCEPT ![Len(heap)] = item], 0, Len(heap) - 1, item)

\* heapq.heappush, as called by PriorityQueue.put
HeapPush(heap, item) == SiftDown(Append(heap, item), 0, Len(heap), item)

HeapPopKeep(heap) == [item |-> heap[1], heap |-> heap]

\* heapq.heappop, as called by PriorityQueue.get: the item and the heap left
HeapPop(heap) ==
  LET lastelt == heap[Len(heap)]
      rest == SubSeq(heap, 1, Len(heap) - 1)
  IN IF rest # <<>>
       THEN [item |-> rest[1], heap |-> SiftUpLoop([rest EXCEPT ![1] = lastelt], 0, lastelt)]
       ELSE [item |-> lastelt, heap |-> rest]

(***************************************************************************)
(* State.                                                                  *)
(***************************************************************************)
VARIABLES
  \* SmartDownloadScheduler
  download_queue,        \* the heap of pending DownloadTask objects
  active_downloads,      \* task ids mapped to their worker thread
  active_download_info,  \* task id -> live progress snapshot
  completed_downloads,   \* task id -> DownloadResult
  lock,                  \* self._lock, a threading.Lock: "free" or its holder
  stop_event,            \* self._stop_event
  stats,                 \* _total_tasks, _successful_tasks, _failed_tasks, _peak_concurrent_downloads
  \* the admission loop thread (_schedule_loop)
  pc_loop, available_slots, loop_task,
  \* the worker threads (_download_worker), one per task id
  wpc, attempt, ret, result,
  \* the tasks handed to add_task so far, and each task's two files
  tasks, disk,
  \* history: per task, the outcome of each _perform_download call
  calls,
  \* BatchDownloader: task_results of the asset, last get_task_progress report
  task_results, progress,
  \* TransferSpec: the files of one path, the last transfer call, calls made
  t_disk, t_call, t_n,
  \* callers of the scheduler: task ids removed by clear_queue, task ids added
  \* by add_urgent_task, the thread calling stop(), the threads calling
  \* start(), self._scheduler_thread and the admission loop threads alive
  cleared, urgent, stop_pc, start_pc, scheduler_thread, loop_alive,
  \* AdaptiveThreadPool
  min_workers, max_workers, current_workers, old_workers, performance_metrics,
  recent_metrics,        \* _adjust_thread_count's local recent_metrics
  pool_pc,               \* where the last _adjust_thread_count call is
  rec_pc,                \* per recording thread: where its record_performance call is
  appended,              \* history: how many samples were appended so far
  \* BatchDownloader
  priority_call,         \* the last _calculate_segment_priority call
  schedulers,            \* asset id -> what its scheduler was handed
  batch_call,            \* the last add_m3u8_task call
  submissions,           \* number of add_m3u8_task calls made
  poll_pc,               \* the telemetry accessor the polling thread is in
  global_stats,          \* _total_downloads, _successful_downloads, _failed_downloads
  \* history: per task, the time.sleep calls of its worker between attempts
  slept,
  \* DownloadQueue and the TaskManager it reads
  dq_lock,               \* DownloadQueue.lock: the thread holding it, if any
  running_tasks,         \* DownloadQueue.running_tasks, its keys
  pending_tasks,         \* DownloadQueue.pending_tasks
  max_concurrent,        \* DownloadQueue.max_concurrent
  tm_tasks,              \* TaskManager.tasks: the status of a task, or "absent"
  th_pc,                 \* per thread: where it is
  th_own,                \* per worker thread: the task its callback runs for
  th_new,                \* per thread: the task it has just started a thread for
  dq_ignored,            \* the add_to_queue call in progress found its task queued
  born,                  \* how many worker threads were started
  \* _download_m3u8_traditional and its segment threads
  thread_count,          \* the task's thread_count
  segment_count,         \* len(ts_segments)
  semaphore,             \* the permits left in threading.Semaphore(thread_count)
  trad_pc,               \* where _download_m3u8_traditional is
  trad_status,           \* the status of the task in the TaskManager
  seg_pc,                \* per segment thread: where it is
  \* BatchDownloader.get_all_tasks_status and get_task_progress
  bd_lock,               \* BatchDownloader._lock: the thread holding it, if any
  status_pc,             \* where the thread asking for the status is
  status_todo,           \* the assets the loop of get_all_tasks_status has left
  all_status,            \* get_all_tasks_status's all_status
  \* AdaptiveThreadPool.start, submit and the executors of _adjust_thread_count
  pool_lock,             \* AdaptiveThreadPool._lock: the thread holding it, if any
  executor,              \* self._executor: the rank of the executor, 0 for None
  ex_shutdown,           \* the executors that were shut down
  sub_pc,                \* per submitting thread: where its submit call is
  sub_ex,                \* per submitting thread: the executor it read
  jobs                   \* per submitting thread: what became of its job

schedVars ==
  <<download_queue, active_downloads, active_download_info, completed_downloads,
    lock, stop_event, stats, pc_loop, available_slots, loop_task,
    wpc, attempt, ret, result, tasks, disk, calls, task_results, progress>>

transferVars == <<t_disk, t_call, t_n>>

controlVars == <<cleared, urgent, stop_pc, start_pc, scheduler_thread, loop_alive>>

poolVars ==
  <<min_workers, max_workers, current_workers, old_workers, performance_metrics,
    recent_metrics, pool_pc, rec_pc, appended>>

\* BatchDownloader and its callers
batchVars ==
  <<priority_call, schedulers, batch_call, submissions, poll_pc, global_stats>>

\* history: per task, the seconds its worker slept between attempts
historyVars == <<slept>>

queueVars ==
  <<dq_lock, running_tasks, pending_tasks, max_concurrent, tm_tasks, th_pc,
    th_own, th_new, dq_ignored, born>>

segmentVars == <<thread_count, segment_count, semaphore, trad_pc, trad_status, seg_pc>>

statusVars == <<bd_lock, status_pc, status_todo, all_status>>

executorVars == <<pool_lock, executor, ex_shutdown, sub_pc, sub_ex, jobs>>

appVars == <<queueVars, segmentVars, statusVars, executorVars>>

vars == <<schedVars, transferVars, controlVars, poolVars, batchVars, historyVars, appVars>>

TaskIds == 1..NumTasks

\* the threads that call record_performance at once
Recorders == 1..MaxRecorders

Submitted == 1..Len(tasks)

EmptyMap == [x \in {} |-> 0]

NoReturn == Returned(FALSE, 0, 0, EmptyDisk, 0)

\* DownloadResult(task, success=False, downloaded_bytes=0, total_bytes=0)
DownloadResult(ok, downloaded_bytes, total_bytes, error_message) ==
  [success |-> ok, downloaded_bytes |-> downloaded_bytes, total_bytes |-> total_bytes,
   error_message |-> error_message]

NoReport == [reported |-> FALSE, total_segments |-> 0, completed_segments |-> 0,
             progress_percentage |-> 0, active_downloads |-> 0, queue_size |-> 0]

\* the global counters of a new BatchDownloader
NoDownloads == [total_downloads |-> 0, successful_downloads |-> 0, failed_downloads |-> 0]

\* _calculate_segment_priority was not called, add_m3u8_task was not called
NoPriorityCall == [base_priority |-> LOW, index |-> 0, total |-> 0, exists |-> FALSE,
                   called |-> FALSE, out |-> LOW]

NoBatchCall == [task_id |-> "none", ts_segments |-> <<>>, sorted_segments |-> <<>>,
                priority |-> LOW, urgent_given |-> FALSE, urgent_segments |-> {},
                outcome |-> "none", added_count |-> 0, existing |-> {}]

NoResponse == Response(0, HTTP_OK, <<>>, FALSE, FALSE, FALSE)

\* the last transfer call: the function called, the files before it, the
\* answer it got, what it returned, and the last progress_callback report
NoCall == [fn |-> "none", before |-> EmptyDisk, resp |-> NoResponse,
           out |-> NoReturn, progress |-> NoProgress]

SchedInit ==
  /\ download_queue = <<>>
  /\ active_downloads = {}
  /\ active_download_info = EmptyMap
  /\ completed_downloads = EmptyMap
  /\ lock = "free"
  /\ stop_event = FALSE
  /\ stats = [total_tasks |-> 0, successful_tasks |-> 0, failed_tasks |-> 0,
              peak_concurrent_downloads |-> 0]
  /\ pc_loop = "none"
  /\ available_slots = 0
  /\ loop_task = NoTask
  /\ wpc = [t \in TaskIds |-> "idle"]
  /\ attempt = [t \in TaskIds |-> 0]
  /\ ret = [t \in TaskIds |-> NoReturn]
  /\ result = [t \in TaskIds |-> DownloadResult(FALSE, 0, 0, "none")]
  /\ tasks = <<>>
  /\ disk = [t \in TaskIds |-> EmptyDisk]
  /\ calls = [t \in TaskIds |-> <<>>]
  /\ task_results = EmptyMap
  /\ progress = NoReport

TransferIdle ==
  /\ t_disk = EmptyDisk
  /\ t_call = NoCall
  /\ t_n = 0

\* the threads that call start() in the runs about start()
StartCallers == {"caller 1", "caller 2"}

ControlIdle ==
  /\ cleared = {}
  /\ urgent = {}
  /\ stop_pc = "idle"
  /\ start_pc = [c \in StartCallers |-> "idle"]
  /\ scheduler_thread = 0
  /\ loop_alive = <<>>

\* no AdaptiveThreadPool is created
PoolIdle ==
  /\ min_workers = 0
  /\ max_workers = 0
  /\ current_workers = 0
  /\ old_workers = 0
  /\ performance_metrics = <<>>
  /\ recent_metrics = <<>>
  /\ pool_pc = "none"
  /\ rec_pc = [r \in Recorders |-> "idle"]
  /\ appended = 0

\* no BatchDownloader call was made
BatchIdle ==
  /\ priority_call = NoPriorityCall
  /\ schedulers = EmptyMap
  /\ batch_call = NoBatchCall
  /\ submissions = 0
  /\ poll_pc = "idle"
  /\ global_stats = NoDownloads
  /\ slept = [t \in TaskIds |-> <<>>]

\* the ids of the tasks task_manager.add_task created
QueueTaskIds == DOMAIN tm_tasks

\* thread 0 is the user-interface thread; thread k > 0 is the k-th download
\* thread DownloadQueue started
UiThread == 0

QueueThreads == DOMAIN th_pc

QueueWorkers == QueueThreads \ {UiThread}

\* DownloadQueue(task_manager, max_concurrent) over a TaskManager holding
\* queued tasks, all PENDING; at most starts download threads are started
DownloadQueueCreated(limits, queued, starts) ==
  /\ dq_lock = {}
  /\ running_tasks = {}
  /\ pending_tasks = <<>>
  /\ max_concurrent \in limits
  /\ tm_tasks = [t \in 1..queued |-> "PENDING"]
  /\ th_pc = [k \in 0..starts |-> IF k = UiThread THEN "idle" ELSE "unborn"]
  /\ th_own = [k \in 0..starts |-> 0]
  /\ th_new = [k \in 0..starts |-> 0]
  /\ dq_ignored = FALSE
  /\ born = 0

\* no traditional download was started
SegmentsIdle ==
  /\ thread_count = 0
  /\ segment_count = 0
  /\ semaphore = 0
  /\ trad_pc = "none"
  /\ trad_status = "PENDING"
  /\ seg_pc = <<>>

\* nobody asks the BatchDownloader for its status
StatusIdle ==
  /\ bd_lock = {}
  /\ status_pc = "idle"
  /\ status_todo = {}
  /\ all_status = EmptyMap

\* nobody submits to the AdaptiveThreadPool
ExecutorIdle ==
  /\ pool_lock = {}
  /\ executor = 0
  /\ ex_shutdown = {}
  /\ sub_pc = <<>>
  /\ sub_ex = <<>>
  /\ jobs = <<>>

\* the DownloadQueue is left alone
QueueIdle == DownloadQueueCreated({MaxLimit}, MaxQueued, MaxStarts)

AppIdle == QueueIdle /\ SegmentsIdle /\ StatusIdle /\ ExecutorIdle

Init == SchedInit /\ TransferIdle /\ ControlIdle /\ PoolIdle /\ BatchIdle /\ AppIdle

(***************************************************************************)
(* SmartDownloadScheduler.add_task: put the task on the priority queue.    *)
(* Task ids are handed out in submission order, as add_m3u8_task does      *)
(* ("<asset>_segment_<i>").  How many tasks are submitted is bounded in    *)
(* the next-state relations, not here.                                     *)
(***************************************************************************)
AddTask(priority, retry_count) ==
  /\ LET task == DownloadTask(Len(tasks) + 1, priority, retry_count)
     IN /\ download_queue' = HeapPush(download_queue, task)
        /\ tasks' = Append(tasks, task)
  /\ UNCHANGED <<active_downloads, active_download_info, completed_downloads, lock,
                 stop_event, stats, pc_loop, available_slots, loop_task, wpc, attempt,
                 ret, result, disk, calls, task_results, progress>>
  /\ UNCHANGED <<controlVars, poolVars, transferVars, batchVars, historyVars, appVars>>

(***************************************************************************)
(* SmartDownloadScheduler.start: launch the admission loop unless one is   *)
(* alive.                                                                  *)
(***************************************************************************)
Start ==
  /\ pc_loop \in {"none", "ended"}
  /\ stop_event' = FALSE
  /\ pc_loop' = "top"
  /\ UNCHANGED <<download_queue, active_downloads, active_download_info,
                 completed_downloads, lock, stats, available_slots, loop_task, wpc,
                 attempt, ret, result, tasks, disk, calls, task_results, progress>>
  /\ UNCHANGED <<controlVars, poolVars, transferVars, batchVars, historyVars, appVars>>

(***************************************************************************)
(* _schedule_loop, one action per step between two lock acquisitions.      *)
(***************************************************************************)
AvailableSlotsOffByOne == MaxConcurrent - Cardinality(active_downloads) + 1

\* available_slots = self.max_concurrent_downloads - len(self.active_downloads)
AvailableSlots == MaxConcurrent - Cardinality(active_downloads)

\* `while not self._stop_event.is_set()` and `with self._lock: available_slots = ...`
ScheduleLoopCheckSlots ==
  /\ pc_loop = "top"
  /\ stop_event \/ lock = "free"
  /\ IF stop_event
       THEN pc_loop' = "ended" /\ UNCHANGED available_slots
       ELSE pc_loop' = "decide" /\ available_slots' = AvailableSlots
  /\ UNCHANGED <<download_queue, active_downloads, active_download_info,
                 completed_downloads, lock, stop_event, stats, loop_task, wpc, attempt,
                 ret, result, tasks, disk, calls, task_results, progress>>
  /\ UNCHANGED <<controlVars, poolVars, transferVars, batchVars, historyVars, appVars>>

\* `if available_slots > 0 and not self.download_queue.empty()`: get the next
\* task and start its worker thread
ScheduleLoopAdmit ==
  /\ pc_loop = "decide"
  /\ IF available_slots > 0 /\ download_queue # <<>>
       THEN LET got == HeapPop(download_queue)
            IN /\ download_queue' = got.heap
               /\ loop_task' = got.item
               /\ wpc' = [wpc EXCEPT ![got.item.task_id] = "init"]
               /\ pc_loop' = "register"
       ELSE /\ pc_loop' = "cleanup"
            /\ UNCHANGED <<download_queue, loop_task, wpc>>
  /\ UNCHANGED <<active_downloads, active_download_info, completed_downloads, lock,
                 stop_event, stats, available_slots, attempt, ret, result, tasks, disk,
                 calls, task_results, progress>>
  /\ UNCHANGED <<controlVars, poolVars, transferVars, batchVars, historyVars, appVars>>

\* `with self._lock: self.active_downloads[task.task_id] = thread`
ScheduleLoopRegister ==
  /\ pc_loop = "register"
  /\ lock = "free"
  /\ active_downloads' = active_downloads \cup {loop_task.task_id}
  /\ pc_loop' = "cleanup"
  /\ UNCHANGED <<download_queue, active_download_info, completed_downloads, lock,
                 stop_event, stats, available_slots, loop_task, wpc, attempt, ret,
                 result, tasks, disk, calls, task_results, progress>>
  /\ UNCHANGED <<controlVars, poolVars, transferVars, batchVars, historyVars, appVars>>

\* thread.is_alive() of the worker thread of task t
IsAlive(t) == wpc[t] \notin {"idle", "done"}

\* _cleanup_completed_downloads, then time.sleep(0.1) and the next iteration
CleanupCompletedDownloads ==
  /\ pc_loop = "cleanup"
  /\ lock = "free"
  /\ active_downloads' = {t \in active_downloads : IsAlive(t)}
  /\ pc_loop' = "top"
  /\ UNCHANGED <<download_queue, active_download_info, completed_downloads, lock,
                 stop_event, stats, available_slots, loop_task, wpc, attempt, ret,
                 result, tasks, disk, calls, task_results, progress>>
  /\ UNCHANGED <<controlVars, poolVars, transferVars, batchVars, historyVars, appVars>>

(***************************************************************************)
(* _download_worker, the thread of task t.                                 *)
(***************************************************************************)
\* the answers the workers' transfers get
SegmentArrives == Response(0, HTTP_OK, <<1>>, TRUE, FALSE, FALSE)
EveryRequestTimesOut == Response(MAX_ATTEMPTS, HTTP_OK, <<>>, FALSE, FALSE, FALSE)
ServerError == Response(0, HTTP_SERVER_ERROR, <<>>, FALSE, FALSE, FALSE)
NotFound == Response(0, HTTP_NOT_FOUND, <<>>, FALSE, FALSE, FALSE)
TempFileCannotBeOpened == Response(0, HTTP_OK, <<1>>, TRUE, TRUE, FALSE)
WriteFailsAfterOneByte == Response(0, HTTP_OK, <<0>>, TRUE, FALSE, TRUE)
RangeHonoured == Response(0, HTTP_PARTIAL, <<1>>, TRUE, FALSE, FALSE)

\* in the runs with several workers: the segment arrives or the network fails
SchedulerResponses == {SegmentArrives, EveryRequestTimesOut}

\* in the runs of one worker: every kind of answer
WorkerResponses ==
  {SegmentArrives, EveryRequestTimesOut, ServerError, NotFound,
   TempFileCannotBeOpened, WriteFailsAfterOneByte, RangeHonoured}

\* retry_count of the tasks in the runs with several workers
SchedulerRetryCounts == {0, 1}

\* `with self._lock: self.active_download_info[task_id] = {...}` and the
\* initial DownloadResult
DownloadWorkerBegin(t) ==
  /\ wpc[t] = "init"
  /\ lock = "free"
  /\ active_download_info' =
       [x \in DOMAIN active_download_info \cup {t} |->
          IF x = t THEN [downloaded_bytes |-> 0, total_bytes |-> 0]
          ELSE active_download_info[x]]
  /\ result' = [result EXCEPT ![t] = DownloadResult(FALSE, 0, 0, "none")]
  /\ attempt' = [attempt EXCEPT ![t] = 0]
  /\ wpc' = [wpc EXCEPT ![t] = "attempt"]
  /\ UNCHANGED <<download_queue, active_downloads, completed_downloads, lock,
                 stop_event, stats, pc_loop, available_slots, loop_task, ret, tasks,
                 disk, calls, task_results, progress>>
  /\ UNCHANGED <<controlVars, poolVars, transferVars, batchVars, historyVars, appVars>>

\* `success, downloaded_bytes, total_bytes = self._perform_download(task)`.
\* _perform_download catches every exception itself and returns a tuple, so
\* the worker's except clauses (lines 652-673) are never entered.
DownloadWorkerAttempt(t, resp) ==
  /\ wpc[t] = "attempt"
  /\ LET out == PerformDownload(disk[t], resp)
     IN /\ ret' = [ret EXCEPT ![t] = out]
        /\ disk' = [disk EXCEPT ![t] = out.disk]
        /\ calls' = [calls EXCEPT ![t] = Append(@, resp)]
  /\ wpc' = [wpc EXCEPT ![t] = "returned"]
  /\ UNCHANGED <<download_queue, active_downloads, active_download_info,
                 completed_downloads, lock, stop_event, stats, pc_loop, available_slots,
                 loop_task, attempt, result, tasks, task_results, progress>>
  /\ UNCHANGED <<controlVars, poolVars, transferVars, batchVars, historyVars, appVars>>

WaitTimeDoubled(k) == 2 ^ (k + 1)

\* wait_time = 2 ** attempt
WaitTime(k) == 2 ^ k

RetryLeftOneMore(t) == attempt[t] <= tasks[t].retry_count

\* `if attempt < task.retry_count`: another attempt follows
RetryLeft(t) == attempt[t] < tasks[t].retry_count

\* `with self._lock:` update the snapshot; then either the success branch
\* (break), or the backoff sleep and the next attempt, or the end of the loop
DownloadWorkerReturned(t) ==
  /\ wpc[t] = "returned"
  /\ lock = "free"
  /\ active_download_info' =
       IF t \in DOMAIN active_download_info
         THEN [active_download_info EXCEPT
                 ![t] = [downloaded_bytes |-> ret[t].downloaded_bytes,
                         total_bytes |-> ret[t].total_bytes]]
         ELSE active_download_info
  /\ IF ret[t].ok
       THEN /\ result' = [result EXCEPT
                            ![t] = DownloadResult(TRUE, ret[t].downloaded_bytes,
                                                  ret[t].total_bytes, @.error_message)]
            /\ wpc' = [wpc EXCEPT ![t] = "store"]
            /\ UNCHANGED attempt
       ELSE IF RetryLeft(t)
         THEN \* time.sleep(2 ** attempt), then the next iteration
              /\ slept' = [slept EXCEPT ![t] = Append(@, WaitTime(attempt[t]))]
              /\ result' = [result EXCEPT ![t].error_message = "retrying"]
              /\ attempt' = [attempt EXCEPT ![t] = @ + 1]
              /\ wpc' = [wpc EXCEPT ![t] = "attempt"]
         ELSE /\ result' = [result EXCEPT ![t].error_message = "max retries reached"]
              /\ wpc' = [wpc EXCEPT ![t] = "store"]
              /\ UNCHANGED attempt
  /\ ret[t].ok \/ ~RetryLeft(t) => UNCHANGED slept
  /\ UNCHANGED <<download_queue, active_downloads, completed_downloads, lock,
                 stop_event, stats, pc_loop, available_slots, loop_task, ret, tasks,
                 disk, calls, task_results, progress>>
  /\ UNCHANGED <<controlVars, poolVars, transferVars, batchVars, appVars>>

\* self._lock = threading.Lock(): acquire succeeds only on a free lock, also
\* for the thread that holds it
LockAcquirable(holder, thread) == holder = "free"

\* record_task_completion, past its `with self._lock:`
RecordTaskCompletion(success) ==
  [total_tasks |-> stats.total_tasks + 1,
   successful_tasks |-> stats.successful_tasks + (IF success THEN 1 ELSE 0),
   failed_tasks |-> stats.failed_tasks + (IF success THEN 0 ELSE 1),
   peak_concurrent_downloads |->
     IF Cardinality(active_downloads) > stats.peak_concurrent_downloads
       THEN Cardinality(active_downloads) ELSE stats.peak_concurrent_downloads]

\* the tail of _download_worker, lines 686-712: the global counters are
\* updated inside `if not result.success and self.log_callback:`; the
\* schedulers of a BatchDownloader are given its log_callback
LogCallbackGiven == TRUE

UpdateGlobalStats(download_result) ==
  IF ~download_result.success /\ LogCallbackGiven
  THEN [total_downloads |-> global_stats.total_downloads + 1,
        successful_downloads |->
          global_stats.successful_downloads + (IF download_result.success THEN 1 ELSE 0),
        failed_downloads |->
          global_stats.failed_downloads + (IF download_result.success THEN 0 ELSE 1)]
  ELSE global_stats

ActiveDownloadInfoKept(t) == active_download_info

\* if task_id in self.active_download_info: del self.active_download_info[task_id]
DelActiveDownloadInfo(t) ==
  [x \in DOMAIN active_download_info \ {t} |-> active_download_info[x]]

\* `with self._lock:` store the result, drop the snapshot, and call
\* record_task_completion, which takes self._lock again while this thread
\* holds it.  If that acquire succeeds the thread runs to its end; if not
\* it waits in record_task_completion with the lock held.
DownloadWorkerStore(t) ==
  /\ wpc[t] = "store"
  /\ lock = "free"
  /\ completed_downloads' =
       [x \in DOMAIN completed_downloads \cup {t} |->
          IF x = t THEN result[t] ELSE completed_downloads[x]]
  /\ active_download_info' = DelActiveDownloadInfo(t)
  /\ IF LockAcquirable("worker", "worker")
       THEN /\ stats' = RecordTaskCompletion(result[t].success)
            /\ lock' = "free"
            /\ global_stats' = UpdateGlobalStats(result[t])
            /\ wpc' = [wpc EXCEPT ![t] = "done"]
       ELSE /\ lock' = "worker"
            /\ wpc' = [wpc EXCEPT ![t] = "in record_task_completion"]
            /\ UNCHANGED <<stats, global_stats>>
  /\ UNCHANGED <<download_queue, active_downloads, stop_event, pc_loop,
                 available_slots, loop_task, attempt, ret, result, tasks, disk, calls,
                 task_results, progress>>
  /\ UNCHANGED <<priority_call, schedulers, batch_call, submissions, poll_pc>>
  /\ UNCHANGED <<controlVars, poolVars, transferVars, historyVars, appVars>>

(***************************************************************************)
(* BatchDownloader.get_task_progress of the asset this scheduler belongs   *)
(* to.  Nothing ever writes task_results[asset]; get_active_count takes    *)
(* the scheduler's lock.                                                   *)
(***************************************************************************)
\* completed_segments = sum(1 for r in results.values() if r.success)
SuccessfulCount(results) == Cardinality({x \in DOMAIN results : results[x].success})

\* the dictionary get_task_progress returns
TaskProgress ==
  LET results == task_results
      counted == Cardinality(DOMAIN results)
      total_segments ==
        IF counted = 0 THEN Len(download_queue) + Cardinality(active_downloads)
        ELSE counted
      completed_segments == IF counted = 0 THEN 0 ELSE SuccessfulCount(results)
  IN  [reported |-> TRUE,
       total_segments |-> total_segments,
       completed_segments |-> completed_segments,
       progress_percentage |->
         IF total_segments > 0 THEN (completed_segments * 100) \div total_segments ELSE 0,
       active_downloads |-> Cardinality(active_downloads),
       queue_size |-> Len(download_queue)]

GetTaskProgress ==
  /\ lock = "free"
  /\ progress' = TaskProgress
  /\ UNCHANGED <<download_queue, active_downloads, active_download_info,
                 completed_downloads, lock, stop_event, stats, pc_loop, available_slots,
                 loop_task, wpc, attempt, ret, result, tasks, disk, calls, task_results>>
  /\ UNCHANGED <<controlVars, poolVars, transferVars, batchVars, historyVars, appVars>>

(***************************************************************************)
(* The scheduler with up to NumTasks tasks, MaxConcurrent slots, its       *)
(* admission loop and its workers.                                         *)
(***************************************************************************)
SubmitTask ==
  /\ Len(tasks) < NumTasks
  /\ \E r \in SchedulerRetryCounts : AddTask(NORMAL, r)

Next ==
  \/ SubmitTask
  \/ Start
  \/ ScheduleLoopCheckSlots
  \/ ScheduleLoopAdmit
  \/ ScheduleLoopRegister
  \/ CleanupCompletedDownloads
  \/ \E t \in TaskIds : DownloadWorkerBegin(t)
  \/ \E t \in TaskIds, resp \in SchedulerResponses : DownloadWorkerAttempt(t, resp)
  \/ \E t \in TaskIds : DownloadWorkerReturned(t)
  \/ \E t \in TaskIds : DownloadWorkerStore(t)

Spec == Init /\ [][Next]_vars

\* every thread that can take a step eventually takes it
Fairness ==
  /\ WF_vars(SubmitTask)
  /\ WF_vars(Start)
  /\ WF_vars(ScheduleLoopCheckSlots)
  /\ WF_vars(ScheduleLoopAdmit)
  /\ WF_vars(ScheduleLoopRegister)
  /\ WF_vars(CleanupCompletedDownloads)
  /\ \A t \in TaskIds :
       /\ WF_vars(DownloadWorkerBegin(t))
       /\ WF_vars(\E resp \in SchedulerResponses : DownloadWorkerAttempt(t, resp))
       /\ WF_vars(DownloadWorkerReturned(t))
       /\ WF_vars(DownloadWorkerStore(t))

FairSpec == Spec /\ Fairness

(***************************************************************************)
(* The same scheduler polled by get_task_progress (the monitor thread of   *)
(* the asset, _monitor_advanced_download_progress).                        *)
(***************************************************************************)
ProgressNext == Next \/ GetTaskProgress

ProgressSpec == Init /\ [][ProgressNext]_vars /\ Fairness /\ WF_vars(GetTaskProgress)

(***************************************************************************)
(* One task and its worker, with every kind of answer and every            *)
(* retry_count up to MaxRetries.                                           *)
(***************************************************************************)
SubmitOneTask ==
  /\ tasks = <<>>
  /\ \E r \in 0..MaxRetries : AddTask(NORMAL, r)

RetryNext ==
  \/ SubmitOneTask
  \/ Start
  \/ ScheduleLoopCheckSlots
  \/ ScheduleLoopAdmit
  \/ ScheduleLoopRegister
  \/ CleanupCompletedDownloads
  \/ \E t \in TaskIds : DownloadWorkerBegin(t)
  \/ \E t \in TaskIds, resp \in WorkerResponses : DownloadWorkerAttempt(t, resp)
  \/ \E t \in TaskIds : DownloadWorkerReturned(t)
  \/ \E t \in TaskIds : DownloadWorkerStore(t)

RetrySpec == Init /\ [][RetryNext]_vars

(***************************************************************************)
(* The pending queue: tasks of every priority are submitted while the      *)
(* admission loop dequeues.  The workers started are left out: they touch  *)
(* neither the queue nor the order of the dequeues.                        *)
(***************************************************************************)
SubmitAnyPriority ==
  /\ Len(tasks) < NumTasks
  /\ \E p \in Priorities : AddTask(p, 0)

QueueNext ==
  \/ SubmitAnyPriority
  \/ Start
  \/ ScheduleLoopCheckSlots
  \/ ScheduleLoopAdmit
  \/ ScheduleLoopRegister
  \/ CleanupCompletedDownloads

QueueSpec == Init /\ [][QueueNext]_vars

(***************************************************************************)
(* The transfer functions on one destination path: any files within the    *)
(* bounds are on disk at the start, and up to MaxCalls calls follow one     *)
(* another, each with any answer.                                          *)
(***************************************************************************)
TransferInit ==
  /\ SchedInit
  /\ BatchIdle
  /\ AppIdle
  /\ ControlIdle
  /\ PoolIdle
  /\ t_disk \in [dest : Files, tmp : Files]
  /\ t_call = NoCall
  /\ t_n = 0

PerformDownloadCall ==
  /\ t_n < MaxCalls
  /\ \E resp \in Responses :
       LET out == PerformDownload(t_disk, resp)
       IN /\ t_call' = [fn |-> "_perform_download", before |-> t_disk, resp |-> resp,
                        out |-> out, progress |-> NoProgress]
          /\ t_disk' = out.disk
  /\ t_n' = t_n + 1
  /\ UNCHANGED <<schedVars, controlVars, poolVars, batchVars, historyVars, appVars>>

DownloadSegmentCall ==
  /\ t_n < MaxCalls
  /\ \E max_retries \in SegmentRetries :
       \E resps \in [1..(2 * (max_retries + 1)) -> SegmentResponses] :
         LET out == DownloadSegment(t_disk, resps, max_retries)
         IN /\ t_call' = [fn |-> "download_segment", before |-> t_disk,
                          resp |-> NoResponse,
                          out |-> Returned(out.ok, 0, 0, out.disk, out.requests),
                          progress |-> out.progress]
            /\ t_disk' = out.disk
  /\ t_n' = t_n + 1
  /\ UNCHANGED <<schedVars, controlVars, poolVars, batchVars, historyVars, appVars>>

TransferNext == PerformDownloadCall \/ DownloadSegmentCall

TransferSpec == TransferInit /\ [][TransferNext]_vars

(***************************************************************************)
(* SmartDownloadScheduler.stop, called by one thread: set the stop event,  *)
(* then join the admission loop thread for at most 5 seconds.  An          *)
(* iteration of the loop takes about a second at most (get(timeout=1.0),   *)
(* sleep(0.1)) unless the loop waits for self._lock, so the join times out *)
(* only when the loop waits for a lock that is not released.               *)
(***************************************************************************)
Stop ==
  /\ stop_pc # "joining"
  /\ stop_event' = TRUE
  /\ stop_pc' = "joining"
  /\ UNCHANGED <<download_queue, active_downloads, active_download_info,
                 completed_downloads, lock, stats, pc_loop, available_slots, loop_task,
                 wpc, attempt, ret, result, tasks, disk, calls, task_results, progress>>
  /\ UNCHANGED <<cleared, urgent, start_pc, scheduler_thread, loop_alive>>
  /\ UNCHANGED <<poolVars, transferVars, batchVars, historyVars, appVars>>

\* the admission loop waits for self._lock while a thread holds it for good
LoopBlocked == pc_loop \in {"register", "cleanup"} /\ lock # "free"

\* `if self._scheduler_thread: self._scheduler_thread.join(timeout=5.0)` returns
StopReturn ==
  /\ stop_pc = "joining"
  /\ pc_loop \in {"none", "ended"} \/ LoopBlocked
  /\ stop_pc' = "returned"
  /\ UNCHANGED schedVars
  /\ UNCHANGED <<cleared, urgent, start_pc, scheduler_thread, loop_alive>>
  /\ UNCHANGED <<poolVars, transferVars, batchVars, historyVars, appVars>>

(***************************************************************************)
(* The scheduler of Spec, stopped and started again at any moment.         *)
(***************************************************************************)
StopNext == Next \/ Stop \/ StopReturn

StopSpec == Init /\ [][StopNext]_vars /\ Fairness /\ WF_vars(StopReturn)

(***************************************************************************)
(* SmartDownloadScheduler.start called by several threads.  start() reads  *)
(* self._scheduler_thread and is_alive(), and only then clears the event,  *)
(* creates the thread and starts it; nothing makes the two steps one.      *)
(* The admission loop threads are numbered in the order they are created:  *)
(* loop_alive[l] is is_alive() of thread l, scheduler_thread is the thread *)
(* self._scheduler_thread refers to (0: None).  Here a loop is reduced to  *)
(* its `while not self._stop_event.is_set()`; its iterations are in Spec.  *)
(***************************************************************************)
SchedulerThreadAlive == scheduler_thread # 0 /\ loop_alive[scheduler_thread]

AliveLoops == {l \in 1..Len(loop_alive) : loop_alive[l]}

Launching == {c \in StartCallers : start_pc[c] = "launch"}

\* `if self._scheduler_thread is None or not self._scheduler_thread.is_alive()`
StartCheck(c) ==
  /\ start_pc[c] \in {"idle", "returned"}
  /\ Len(loop_alive) + Cardinality(Launching) < MaxLoopThreads
  /\ start_pc' = [start_pc EXCEPT ![c] = IF SchedulerThreadAlive THEN "returned" ELSE "launch"]
  /\ UNCHANGED <<cleared, urgent, stop_pc, scheduler_thread, loop_alive>>
  /\ UNCHANGED <<schedVars, poolVars, transferVars, batchVars, historyVars, appVars>>

\* self._stop_event.clear(); self._scheduler_thread = Thread(...); .start()
StartLaunch(c) ==
  /\ start_pc[c] = "launch"
  /\ stop_event' = FALSE
  /\ loop_alive' = Append(loop_alive, TRUE)
  /\ scheduler_thread' = Len(loop_alive) + 1
  /\ start_pc' = [start_pc EXCEPT ![c] = "returned"]
  /\ UNCHANGED <<download_queue, active_downloads, active_download_info,
                 completed_downloads, lock, stats, pc_loop, available_slots, loop_task,
                 wpc, attempt, ret, result, tasks, disk, calls, task_results, progress>>
  /\ UNCHANGED <<cleared, urgent, stop_pc>>
  /\ UNCHANGED <<poolVars, transferVars, batchVars, historyVars, appVars>>

\* loop thread l finds the stop event set at its `while` and ends
LoopExit(l) ==
  /\ l \in AliveLoops
  /\ stop_event
  /\ loop_alive' = [loop_alive EXCEPT ![l] = FALSE]
  /\ UNCHANGED <<cleared, urgent, stop_pc, start_pc, scheduler_thread>>
  /\ UNCHANGED <<schedVars, poolVars, transferVars, batchVars, historyVars, appVars>>

\* the join of stop() returns: the thread it waited for has ended
StopReturnJoined ==
  /\ stop_pc = "joining"
  /\ ~SchedulerThreadAlive
  /\ stop_pc' = "returned"
  /\ UNCHANGED <<cleared, urgent, start_pc, scheduler_thread, loop_alive>>
  /\ UNCHANGED <<schedVars, poolVars, transferVars, batchVars, historyVars, appVars>>

StartNext ==
  \/ \E c \in StartCallers : StartCheck(c)
  \/ \E c \in StartCallers : StartLaunch(c)
  \/ \E l \in 1..Len(loop_alive) : LoopExit(l)
  \/ Stop
  \/ StopReturnJoined

StartSpec == Init /\ [][StartNext]_vars

(***************************************************************************)
(* SmartDownloadScheduler.add_urgent_task: the task object's priority is   *)
(* set to URGENT, the object is put on the queue, and its priority is set  *)
(* back.  The heap holds the object itself, so after the call the entry    *)
(* compares by the original priority again, at the position the put gave   *)
(* it.                                                                     *)
(***************************************************************************)
AddUrgentTask(priority, retry_count) ==
  /\ LET task == DownloadTask(Len(tasks) + 1, priority, retry_count)
         pushed == HeapPush(download_queue, [task EXCEPT !.priority = URGENT])
     IN /\ download_queue' =
             [i \in 1..Len(pushed) |->
                IF pushed[i].task_id = task.task_id THEN task ELSE pushed[i]]
        /\ tasks' = Append(tasks, task)
        /\ urgent' = urgent \cup {task.task_id}
  /\ UNCHANGED <<active_downloads, active_download_info, completed_downloads, lock,
                 stop_event, stats, pc_loop, available_slots, loop_task, wpc, attempt,
                 ret, result, disk, calls, task_results, progress>>
  /\ UNCHANGED <<cleared, stop_pc, start_pc, scheduler_thread, loop_alive>>
  /\ UNCHANGED <<poolVars, transferVars, batchVars, historyVars, appVars>>

(***************************************************************************)
(* The pending queue of QueueSpec, filled by add_task and add_urgent_task. *)
(***************************************************************************)
SubmitUrgent ==
  /\ Len(tasks) < NumTasks
  /\ \E p \in Priorities : AddUrgentTask(p, 0)

UrgentNext == QueueNext \/ SubmitUrgent

UrgentSpec == Init /\ [][UrgentNext]_vars

(***************************************************************************)
(* SmartDownloadScheduler.clear_queue: `while not empty(): get_nowait()`.  *)
(* One action is one iteration; other threads run between two iterations.  *)
(* queue.PriorityQueue does every put and get under its own mutex, which   *)
(* is why put, get and get_nowait are single steps.                        *)
(***************************************************************************)
ClearQueueGet ==
  /\ download_queue # <<>>
  /\ LET got == HeapPop(download_queue)
     IN /\ download_queue' = got.heap
        /\ cleared' = cleared \cup {got.item.task_id}
  /\ UNCHANGED <<active_downloads, active_download_info, completed_downloads, lock,
                 stop_event, stats, pc_loop, available_slots, loop_task, wpc, attempt,
                 ret, result, tasks, disk, calls, task_results, progress>>
  /\ UNCHANGED <<urgent, stop_pc, start_pc, scheduler_thread, loop_alive>>
  /\ UNCHANGED <<poolVars, transferVars, batchVars, historyVars, appVars>>

(***************************************************************************)
(* The pending queue of QueueSpec with threads that add tasks, the         *)
(* admission loop that dequeues, and a thread in clear_queue.  When        *)
(* clear_queue empties the queue between the loop's empty() test and its   *)
(* get(timeout=1.0), the get takes a task added within the second or       *)
(* raises queue.Empty and the loop starts over: the queue is left as by    *)
(* ScheduleLoopAdmit taken after the clearing.                             *)
(***************************************************************************)
ConcurrentNext == QueueNext \/ ClearQueueGet

ConcurrentSpec == Init /\ [][ConcurrentNext]_vars

(***************************************************************************)
(* Where a task is.                                                        *)
(***************************************************************************)
Pending(t) == \E i \in 1..Len(download_queue) : download_queue[i].task_id = t

Active(t) == t \in active_downloads

Completed(t) == t \in DOMAIN completed_downloads

\* dequeued by the admission loop, its thread started, not yet registered
AwaitingRegistration(t) == pc_loop = "register" /\ loop_task.task_id = t

PlacesOf(t) ==
  (IF Pending(t) THEN 1 ELSE 0) + (IF Active(t) THEN 1 ELSE 0)
    + (IF Completed(t) THEN 1 ELSE 0)

StartedNotReconciled == {t \in TaskIds : AwaitingRegistration(t) \/ Active(t)}

NetworkFailure(resp) ==
  resp.timeouts >= MAX_ATTEMPTS \/ (resp.timeouts = 0 /\ resp.status = HTTP_SERVER_ERROR)

\* a local failure: the temp file cannot be opened, or a write to it fails
LocalIOError(resp) ==
  /\ resp.timeouts < MAX_ATTEMPTS
  /\ resp.status \in {HTTP_OK, HTTP_PARTIAL}
  /\ resp.open_error \/ resp.stream_error

(***************************************************************************)
(* C4: a task with retry_count R whose attempts all end in a network       *)
(* failure has _perform_download called R + 1 times, never more, and the   *)
(* DownloadResult stored for it has success = False and an error message.  *)
(***************************************************************************)
C4_RetriesExhausted ==
  \A t \in Submitted :
    /\ Len(calls[t]) <= tasks[t].retry_count + 1
    /\ (Completed(t) /\ \A i \in 1..Len(calls[t]) : NetworkFailure(calls[t][i]))
         => /\ Len(calls[t]) = tasks[t].retry_count + 1
            /\ ~completed_downloads[t].success
            /\ completed_downloads[t].error_message # "none"

\* a task with the largest retry_count, failed by the network every time,
\* has its result stored
C4_Witness ==
  \E t \in Submitted :
    /\ tasks[t].retry_count = MaxRetries
    /\ Completed(t)
    /\ Len(calls[t]) = MaxRetries + 1
    /\ \A i \in 1..Len(calls[t]) : NetworkFailure(calls[t][i])

(***************************************************************************)
(* C5, as stated: a task with retry_count >= 1 whose first attempt hits a  *)
(* local I/O error has _perform_download called once only, and the result *)
(* stored for it has success = False.                                      *)
(***************************************************************************)
C5_NoRetryAfterIOError ==
  \A t \in Submitted :
    (tasks[t].retry_count >= 1 /\ Len(calls[t]) >= 1 /\ LocalIOError(calls[t][1]))
      => /\ Len(calls[t]) = 1
         /\ Completed(t) => ~completed_downloads[t].success

\* what the code does instead: the attempt after the I/O error is made, and
\* its success is the stored result
C5_RetriedAfterIOError ==
  \E t \in Submitted :
    /\ Len(calls[t]) = 2
    /\ LocalIOError(calls[t][1])
    /\ tasks[t].retry_count >= 1
    /\ Completed(t)
    /\ completed_downloads[t].success

(***************************************************************************)
(* C6: the task the admission loop takes from the pending queue has the    *)
(* highest priority of all the tasks pending at that moment, whatever the  *)
(* order they were submitted in.                                           *)
(***************************************************************************)
C6_HighestPriorityFirst ==
  [][Len(download_queue') < Len(download_queue)
       => \A i \in 1..Len(download_queue) :
            loop_task'.priority >= download_queue[i].priority]_vars

\* LOW, URGENT, NORMAL were submitted in that order and the first dequeue
\* took the URGENT task
C6_Witness ==
  /\ Len(tasks) >= 3
  /\ tasks[1].priority = LOW /\ tasks[2].priority = URGENT /\ tasks[3].priority = NORMAL
  /\ pc_loop = "register"
  /\ loop_task.task_id = 2
  /\ active_downloads = {}
  /\ Pending(1) /\ Pending(3)

(***************************************************************************)
(* C7: a transfer (_perform_download or download_segment) called while the *)
(* destination file exists sends no request, leaves both files as they     *)
(* are, and returns success with downloaded = total = the size of the      *)
(* existing file; so does every further call.                              *)
(***************************************************************************)
C7_ExistingDestination ==
  (t_call.fn # "none" /\ t_call.before.dest.exists)
    => /\ t_call.out.ok
       /\ t_call.out.requests = 0
       /\ t_call.out.disk = t_call.before
       /\ t_disk = t_call.before
       /\ t_call.fn = "_perform_download"
            => /\ t_call.out.downloaded_bytes = Getsize(t_call.before.dest)
               /\ t_call.out.total_bytes = Getsize(t_call.before.dest)
       /\ t_call.fn = "download_segment"
            => t_call.progress = Progress(Getsize(t_call.before.dest),
                                          Getsize(t_call.before.dest))

\* the last of MaxCalls calls in a row found a non-empty destination file
C7_Witness ==
  /\ t_n = MaxCalls
  /\ t_call.fn = "_perform_download"
  /\ t_call.before.dest.exists
  /\ Getsize(t_call.before.dest) > 0
  /\ t_call.out.downloaded_bytes = Getsize(t_call.before.dest)

(***************************************************************************)
(* C8: with a temp file of N > 0 bytes and a 206 answer carrying M bytes,  *)
(* _perform_download leaves a destination file made of the N bytes         *)
(* followed by the M bytes, no temp file, and returns success with         *)
(* downloaded_bytes = N + M.                                               *)
(***************************************************************************)
Resumed206 ==
  /\ t_call.fn = "_perform_download"
  /\ ~t_call.before.dest.exists
  /\ t_call.before.tmp.exists
  /\ Getsize(t_call.before.tmp) > 0
  /\ t_call.resp.timeouts < MAX_ATTEMPTS
  /\ t_call.resp.status = HTTP_PARTIAL
  /\ ~t_call.resp.open_error
  /\ ~t_call.resp.stream_error

C8_ResumeAppends ==
  Resumed206
    => /\ t_call.out.ok
       /\ t_disk.dest = File(t_call.before.tmp.data \o t_call.resp.body)
       /\ ~t_disk.tmp.exists
       /\ Getsize(t_disk.dest) = Getsize(t_call.before.tmp) + Len(t_call.resp.body)
       /\ t_call.out.downloaded_bytes = Getsize(t_call.before.tmp) + Len(t_call.resp.body)

\* the largest temp file resumed with the largest body
C8_Witness ==
  /\ Resumed206
  /\ Getsize(t_call.before.tmp) = MaxFileLen
  /\ Len(t_call.resp.body) = MaxFileLen
  /\ Getsize(t_disk.dest) = 2 * MaxFileLen

(***************************************************************************)
(* C9: when the request of a task with a temp file of S bytes is answered  *)
(* with 416, _perform_download renames the temp file to the destination    *)
(* as it is and returns (True, S, S).                                      *)
(***************************************************************************)
Answered416 ==
  /\ t_call.fn = "_perform_download"
  /\ ~t_call.before.dest.exists
  /\ t_call.before.tmp.exists
  /\ t_call.resp.timeouts < MAX_ATTEMPTS
  /\ t_call.resp.status = HTTP_RANGE_NOT_SATISFIABLE

C9_RangeNotSatisfiable ==
  Answered416
    => /\ t_call.out.ok
       /\ t_call.out.downloaded_bytes = Getsize(t_call.before.tmp)
       /\ t_call.out.total_bytes = Getsize(t_call.before.tmp)
       /\ t_disk = [dest |-> t_call.before.tmp, tmp |-> NoFile]

\* a 416 answer that carries a body, for a non-empty temp file
C9_Witness ==
  /\ Answered416
  /\ Getsize(t_call.before.tmp) = MaxFileLen
  /\ Len(t_call.resp.body) > 0
  /\ t_disk.dest = t_call.before.tmp

(***************************************************************************)
(* C3, as stated: when every transfer of the asset's NumTasks segments     *)
(* succeeds, get_task_progress eventually reports all of them completed,   *)
(* none active, none queued, and 100 percent.                              *)
(***************************************************************************)
AllTransfersSucceed ==
  \A t \in TaskIds : \A i \in 1..Len(calls[t]) : calls[t][i] = SegmentArrives

ReportsAllCompleted ==
  /\ progress.reported
  /\ progress.completed_segments = NumTasks
  /\ progress.active_downloads = 0
  /\ progress.queue_size = 0
  /\ progress.progress_percentage = 100

C3_EventuallyReportsAllCompleted == ([]AllTransfersSucceed) => <>ReportsAllCompleted

\* where the code ends up instead: the first segment is stored, its worker
\* waits in record_task_completion for the lock it holds itself, the other
\* segments stay queued, and no report showed a completed segment
C3_StuckAfterFirstSegment ==
  /\ AllTransfersSucceed
  /\ Len(tasks) = NumTasks
  /\ \E t \in Submitted :
       /\ Completed(t) /\ completed_downloads[t].success
       /\ wpc[t] = "in record_task_completion"
  /\ lock = "worker"
  /\ download_queue # <<>>
  /\ progress.reported /\ progress.completed_segments = 0

(***************************************************************************)
(* C10, as stated: once a task has ended in failure, every other task      *)
(* submitted to the scheduler still eventually has its DownloadResult      *)
(* stored.                                                                 *)
(***************************************************************************)
Failed(t) == Completed(t) /\ ~completed_downloads[t].success

C10_FailureIsIsolated ==
  \A t \in TaskIds, u \in TaskIds : (Failed(t) /\ u \in Submitted) ~> Completed(u)

\* where the code ends up instead: the worker that stored a failure waits in
\* record_task_completion for the lock it holds itself, and another task
\* has no result
C10_WorkerHoldsLockForever ==
  \E t, u \in Submitted :
    /\ Failed(t)
    /\ wpc[t] = "in record_task_completion"
    /\ lock = "worker"
    /\ ~Completed(u)

(***************************************************************************)
(* C11, as stated: every admitted task whose attempts have ended           *)
(* eventually has its completion step done: the result is stored, the      *)
(* active_download_info entry is gone, the counters include it, the worker *)
(* thread has ended and the admission loop has taken the task out of       *)
(* active_downloads.                                                       *)
(***************************************************************************)
CompletionStepDone(t) ==
  /\ Completed(t)
  /\ t \notin DOMAIN active_download_info
  /\ stats.total_tasks >= 1
  /\ stats.total_tasks = stats.successful_tasks + stats.failed_tasks
  /\ ~IsAlive(t)
  /\ ~Active(t)

C11_CompletionStepCompletes ==
  \A t \in TaskIds : (wpc[t] = "store") ~> CompletionStepDone(t)

\* where the code ends up instead: the result is stored, the counters are
\* untouched, the thread is alive in record_task_completion, and the
\* admission loop waits for the lock before its cleanup
C11_CountersNeverUpdated ==
  \E t \in Submitted :
    /\ Completed(t)
    /\ wpc[t] = "in record_task_completion"
    /\ stats.total_tasks = 0
    /\ Active(t)
    /\ pc_loop = "cleanup"

(***************************************************************************)
(* C12, as stated: once stop() has returned and until start() launches a   *)
(* loop again, no task leaves the pending queue and none is added to       *)
(* active_downloads; the transfers running at that moment are not          *)
(* cancelled and each of them gets its result stored.                      *)
(***************************************************************************)
Stopped == stop_pc = "returned" /\ stop_event

NoAdmissionStep ==
  /\ Len(download_queue') >= Len(download_queue)
  /\ active_downloads' \subseteq active_downloads

C12_NoAdmissionAfterStop == [][Stopped => NoAdmissionStep]_vars

C12_StopLetsTransfersFinish ==
  /\ C12_NoAdmissionAfterStop
  /\ \A t \in TaskIds : (Stopped /\ IsAlive(t)) ~> Completed(t)

\* where the code ends up instead: stop() has returned, one worker waits in
\* record_task_completion with the lock, and a transfer that was running
\* when stop() returned has returned from _perform_download and cannot
\* store its result
C12_RunningTransferStuckAfterStop ==
  /\ Stopped
  /\ pc_loop = "ended"
  /\ lock = "worker"
  /\ \E t \in Submitted : wpc[t] \in {"returned", "store"} /\ ~Completed(t)

(***************************************************************************)
(* C13, as stated: whatever start() calls are made, from one thread or     *)
(* several, at most one admission loop thread is running, and when a       *)
(* start() call returns a loop is running and the stop event is clear.     *)
(***************************************************************************)
StartReturns(c) == start_pc[c] # "returned" /\ start_pc'[c] = "returned"

C13_StartIsIdempotent ==
  [][/\ Cardinality(AliveLoops') <= 1
     /\ \A c \in StartCallers :
          StartReturns(c) => (AliveLoops' # {} /\ ~stop_event')]_vars

\* what the code allows instead: two threads passed the check before either
\* created its thread, and two admission loops run on one scheduler
C13_TwoLoopsRunning ==
  /\ Cardinality(AliveLoops) = 2
  /\ ~stop_event
  /\ \A c \in StartCallers : start_pc[c] = "returned"

(***************************************************************************)
(* C14, as stated: while a task added with add_urgent_task is pending, no  *)
(* task of a priority below URGENT that was added with add_task is         *)
(* dequeued.                                                               *)
(***************************************************************************)
UrgentPending == \E i \in 1..Len(download_queue) : download_queue[i].task_id \in urgent

C14_UrgentTaskFirst ==
  [][(Len(download_queue') < Len(download_queue) /\ UrgentPending)
       => (loop_task'.task_id \in urgent \/ loop_task'.priority = URGENT)]_vars

\* what the code does instead: a NORMAL task added after the urgent one has
\* been dequeued while the urgent task, a LOW one, is still pending
C14_UrgentTaskOvertaken ==
  /\ pc_loop = "register"
  /\ loop_task.task_id \notin urgent
  /\ loop_task.priority = NORMAL
  /\ \E i \in 1..Len(download_queue) :
       /\ download_queue[i].task_id \in urgent
       /\ download_queue[i].task_id < loop_task.task_id
       /\ download_queue[i].priority = LOW

(***************************************************************************)
(* C15: with tasks added, dequeued and cleared concurrently, every added   *)
(* task is in exactly one of three conditions: pending (once in the        *)
(* queue), removed by clear_queue, or admitted (its worker started); and   *)
(* the admission loop starts a worker only for a task that has none.       *)
(***************************************************************************)
Admitted(t) == wpc[t] # "idle"

TimesPending(t) ==
  Cardinality({i \in 1..Len(download_queue) : download_queue[i].task_id = t})

NeitherLostNorDuplicated ==
  \A t \in Submitted :
    /\ TimesPending(t) <= 1
    /\ (IF Pending(t) THEN 1 ELSE 0) + (IF t \in cleared THEN 1 ELSE 0)
         + (IF Admitted(t) THEN 1 ELSE 0) = 1

C15_NoTaskLostOrDuplicated ==
  [][/\ NeitherLostNorDuplicated'
     /\ (pc_loop = "decide" /\ pc_loop' = "register") => ~Admitted(loop_task'.task_id)]_vars

\* of the tasks added, one was cleared, one was admitted and one is pending
C15_Witness ==
  /\ Len(tasks) = NumTasks
  /\ \E t, u, v \in Submitted : t \in cleared /\ Admitted(u) /\ Pending(v)

(***************************************************************************)
(* C16: a task whose request is answered with HTTP 404 gets no further     *)
(* transfer attempt after that answer, whatever its retry_count, and the   *)
(* result stored for it has success = False.                               *)
(***************************************************************************)
AnsweredNotFound(resp) ==
  resp.timeouts < MAX_ATTEMPTS /\ resp.status = HTTP_NOT_FOUND

C16_NotFoundIsFatal ==
  \A t \in Submitted :
    \A i \in 1..Len(calls[t]) :
      AnsweredNotFound(calls[t][i])
        => /\ Len(calls[t]) = i
           /\ Completed(t) => ~completed_downloads[t].success

\* what the code does instead: a task with retry_count 1 was answered 404,
\* was attempted again, and its stored result reports success
C16_RetriedAfterNotFound ==
  \E t \in Submitted :
    /\ Len(calls[t]) = 2
    /\ AnsweredNotFound(calls[t][1])
    /\ tasks[t].retry_count >= 1
    /\ Completed(t)
    /\ completed_downloads[t].success

(***************************************************************************)
(* AdaptiveThreadPool: record_performance and _adjust_thread_count.        *)
(* A sample is its success flag and its response time in seconds; the      *)
(* speed and the timestamp of a sample are never read by a decision.  The  *)
(* rates are compared as integers: successes / n > 0.9 is                  *)
(* 10 * successes > 9 * n.  The executor the pool re-creates is left out.  *)
(***************************************************************************)
min(a, b) == IF a <= b THEN a ELSE b

max(a, b) == IF a >= b THEN a ELSE b

Metric(success, response_time) == [success |-> success, response_time |-> response_time]

\* the samples of a pool fed with every kind of sample: fast, middling and
\* slow successes, and failures
PoolSamples == {Metric(TRUE, 1), Metric(TRUE, 3), Metric(TRUE, 9), Metric(FALSE, 1)}

\* the samples of a pool fed with fast successes and failures only
WindowSamples == {Metric(TRUE, 1), Metric(FALSE, 1)}

\* sum(1 for m in recent_metrics if m['success'])
RECURSIVE Successes(_)
Successes(metrics) ==
  IF metrics = <<>> THEN 0
  ELSE (IF Head(metrics).success THEN 1 ELSE 0) + Successes(Tail(metrics))

\* sum(m['response_time'] for m in recent_metrics)
RECURSIVE TotalResponseTime(_)
TotalResponseTime(metrics) ==
  IF metrics = <<>> THEN 0
  ELSE Head(metrics).response_time + TotalResponseTime(Tail(metrics))

AllMetrics(metrics) == metrics

\* self._performance_metrics[-10:]
RecentMetrics(metrics) ==
  SubSeq(metrics, max(1, Len(metrics) - WINDOW + 1), Len(metrics))

\* success_rate > tenths / 10, success_rate < tenths / 10
SuccessRateAbove(recent, tenths) == 10 * Successes(recent) > tenths * Len(recent)

SuccessRateBelow(recent, tenths) == 10 * Successes(recent) < tenths * Len(recent)

AvgResponseTimeAtMost(recent, seconds) == TotalResponseTime(recent) <= seconds * Len(recent)

\* avg_response_time < seconds, avg_response_time > seconds
AvgResponseTimeBelow(recent, seconds) == TotalResponseTime(recent) < seconds * Len(recent)

AvgResponseTimeAbove(recent, seconds) == TotalResponseTime(recent) > seconds * Len(recent)

\* success_rate > 0.9 and avg_response_time < 2.0
GoodPerformance(recent) == SuccessRateAbove(recent, 9) /\ AvgResponseTimeBelow(recent, 2)

IncreaseConditionIgnoringTime(recent) ==
  SuccessRateAbove(recent, 9) /\ current_workers < max_workers

\* ... and self.current_workers < self.max_workers
IncreaseCondition(recent) == GoodPerformance(recent) /\ current_workers < max_workers

\* success_rate < 0.7 or avg_response_time > 5.0 and
\* self.current_workers > self.min_workers: `and` binds tighter than `or`
DecreaseCondition(recent) ==
  \/ SuccessRateBelow(recent, 7)
  \/ AvgResponseTimeAbove(recent, 5) /\ current_workers > min_workers

IncreaseUncapped(current) == current + INCREASE_STEP

\* min(self.current_workers + 2, self.max_workers)
IncreaseTo(current) == min(current + INCREASE_STEP, max_workers)

DecreaseUnfloored(current) == current - DECREASE_STEP

\* max(self.current_workers - 1, self.min_workers)
DecreaseTo(current) == max(current - DECREASE_STEP, min_workers)

\* AdaptiveThreadPool(min_workers, max_workers) with
\* 1 <= min_workers <= max_workers: current_workers = min_workers
PoolCreated(mins, maxs) ==
  /\ min_workers \in mins
  /\ max_workers \in maxs
  /\ min_workers <= max_workers
  /\ current_workers = min_workers
  /\ old_workers = 0
  /\ performance_metrics = <<>>
  /\ recent_metrics = <<>>
  /\ pool_pc = "created"
  /\ rec_pc = [r \in Recorders |-> "idle"]
  /\ appended = 0

DropNewest(metrics) == SubSeq(metrics, 1, Len(metrics) - 1)

\* self._performance_metrics.pop(0)
DropOldest(metrics) == Tail(metrics)

\* record_performance(success, speed, response_time), by any thread: it
\* takes no lock
RecordPerformance(samples, limit) ==
  /\ pool_pc # "none"
  /\ Len(performance_metrics) < limit
  /\ \E metric \in samples :
       LET longer == Append(performance_metrics, metric)
       IN  performance_metrics' =
             IF Len(longer) > METRICS_KEPT THEN DropOldest(longer) ELSE longer
  /\ UNCHANGED <<min_workers, max_workers, current_workers, old_workers,
                 recent_metrics, pool_pc, rec_pc, appended>>
  /\ UNCHANGED <<schedVars, transferVars, controlVars, batchVars, historyVars, appVars>>

\* _adjust_thread_count, lines 110-117, in the adjustment thread: return
\* with fewer than 3 samples, else take the last 10 samples; the rates are
\* computed from that copy
AdjustThreadCountMeasure ==
  /\ pool_pc \in {"created", "returned", "adjusted"}
  /\ IF Len(performance_metrics) < MIN_SAMPLES
     THEN /\ pool_pc' = "returned"
          /\ UNCHANGED recent_metrics
     ELSE /\ pool_pc' = "measured"
          /\ recent_metrics' = RecentMetrics(performance_metrics)
  /\ UNCHANGED <<min_workers, max_workers, current_workers, old_workers,
                 performance_metrics, rec_pc, appended>>
  /\ UNCHANGED <<schedVars, transferVars, controlVars, batchVars, historyVars, appVars>>

\* _adjust_thread_count, lines 119-128, under the pool's lock
AdjustThreadCountDecide ==
  /\ pool_pc = "measured"
  /\ old_workers' = current_workers
  /\ current_workers' =
       IF IncreaseCondition(recent_metrics) THEN IncreaseTo(current_workers)
       ELSE IF DecreaseCondition(recent_metrics) THEN DecreaseTo(current_workers)
       ELSE current_workers
  /\ pool_pc' = "adjusted"
  /\ UNCHANGED <<min_workers, max_workers, performance_metrics, recent_metrics,
                 rec_pc, appended>>
  /\ UNCHANGED <<schedVars, transferVars, controlVars, batchVars, historyVars, appVars>>

\* pools of every size, fed with few samples of every kind
PoolInit ==
  /\ SchedInit
  /\ BatchIdle
  /\ AppIdle
  /\ TransferIdle
  /\ ControlIdle
  /\ PoolCreated(1..MaxWorkers, 1..MaxWorkers)

PoolNext ==
  \/ RecordPerformance(PoolSamples, MaxSamples)
  \/ AdjustThreadCountMeasure
  \/ AdjustThreadCountDecide

PoolSpec == PoolInit /\ [][PoolNext]_vars

\* one pool, fed with more successes and failures than an adjustment
\* looks at
WindowInit ==
  /\ SchedInit
  /\ BatchIdle
  /\ AppIdle
  /\ TransferIdle
  /\ ControlIdle
  /\ PoolCreated({1}, {MaxWorkers})

WindowNext ==
  \/ RecordPerformance(WindowSamples, WINDOW + MaxOlder)
  \/ AdjustThreadCountMeasure
  \/ AdjustThreadCountDecide

WindowSpec == WindowInit /\ [][WindowNext]_vars

(***************************************************************************)
(* record_performance called by several threads at once.  It takes no      *)
(* lock: the append, the test of the length and the pop are three steps of *)
(* the calling thread, each atomic under the interpreter lock.  A sample   *)
(* carries the rank of its append, so that the samples kept can be told    *)
(* from the samples dropped.  The pool starts with nearly METRICS_KEPT     *)
(* samples, recorded by earlier calls one after the other.                 *)
(***************************************************************************)
Sample(success, response_time, serial) ==
  [success |-> success, response_time |-> response_time, serial |-> serial]

RecordedBefore(n) == [i \in 1..n |-> Sample(TRUE, 1, i)]

RecordInit ==
  /\ SchedInit
  /\ BatchIdle
  /\ AppIdle
  /\ TransferIdle
  /\ ControlIdle
  /\ min_workers = 1
  /\ max_workers = MaxWorkers
  /\ current_workers = 1
  /\ old_workers = 0
  /\ recent_metrics = <<>>
  /\ pool_pc = "created"
  /\ rec_pc = [r \in Recorders |-> "idle"]
  /\ \E n \in (METRICS_KEPT - 2)..METRICS_KEPT :
       /\ performance_metrics = RecordedBefore(n)
       /\ appended = n

\* self._performance_metrics.append(metric)
RecordAppend(r) ==
  /\ rec_pc[r] = "idle"
  /\ appended < METRICS_KEPT + MaxRecorded
  /\ \E metric \in WindowSamples :
       performance_metrics' =
         Append(performance_metrics,
                Sample(metric.success, metric.response_time, appended + 1))
  /\ appended' = appended + 1
  /\ rec_pc' = [rec_pc EXCEPT ![r] = "appended"]
  /\ UNCHANGED <<min_workers, max_workers, current_workers, old_workers,
                 recent_metrics, pool_pc>>
  /\ UNCHANGED <<schedVars, transferVars, controlVars, batchVars, historyVars, appVars>>

\* if len(self._performance_metrics) > 100:
RecordCheckLen(r) ==
  /\ rec_pc[r] = "appended"
  /\ rec_pc' = [rec_pc EXCEPT
                  ![r] = IF Len(performance_metrics) > METRICS_KEPT THEN "pop" ELSE "idle"]
  /\ UNCHANGED <<min_workers, max_workers, current_workers, old_workers,
                 performance_metrics, recent_metrics, pool_pc, appended>>
  /\ UNCHANGED <<schedVars, transferVars, controlVars, batchVars, historyVars, appVars>>

\* self._performance_metrics.pop(0), and the call returns
RecordPop(r) ==
  /\ rec_pc[r] = "pop"
  /\ performance_metrics' = DropOldest(performance_metrics)
  /\ rec_pc' = [rec_pc EXCEPT ![r] = "idle"]
  /\ UNCHANGED <<min_workers, max_workers, current_workers, old_workers,
                 recent_metrics, pool_pc, appended>>
  /\ UNCHANGED <<schedVars, transferVars, controlVars, batchVars, historyVars, appVars>>

RecordNext ==
  \/ \E r \in Recorders : RecordAppend(r)
  \/ \E r \in Recorders : RecordCheckLen(r)
  \/ \E r \in Recorders : RecordPop(r)

RecordSpec == RecordInit /\ [][RecordNext]_vars

(***************************************************************************)
(* C17: for a pool created with min_workers <= max_workers, after any      *)
(* sequence of record_performance and _adjust_thread_count calls           *)
(* min_workers <= current_workers <= max_workers, and one adjustment       *)
(* raises current_workers by at most 2 and lowers it by at most 1.         *)
(***************************************************************************)
C17_WorkersWithinBounds ==
  /\ [](pool_pc # "none"
          => min_workers <= current_workers /\ current_workers <= max_workers)
  /\ [][/\ current_workers' <= current_workers + INCREASE_STEP
         /\ current_workers' >= current_workers - DECREASE_STEP]_vars

\* an increase that the cap cut short: one below max_workers, raised to it
C17_Witness ==
  /\ pool_pc = "adjusted"
  /\ GoodPerformance(recent_metrics)
  /\ old_workers = max_workers - 1
  /\ current_workers = max_workers

(***************************************************************************)
(* C18: an adjustment leaves current_workers at                            *)
(* min(current_workers + 2, max_workers), and so never lower than before,  *)
(* when over the samples it used the success rate is > 0.9 and the average *)
(* response time is < 2.0; it raises current_workers in no other case.     *)
(***************************************************************************)
C18_IncreaseWhenGood ==
  pool_pc = "adjusted" =>
    /\ GoodPerformance(recent_metrics)
         => /\ current_workers = min(old_workers + INCREASE_STEP, max_workers)
            /\ current_workers >= old_workers
    /\ ~GoodPerformance(recent_metrics) => current_workers <= old_workers

\* a full increase, right after an adjustment that saw fast successes only
C18_Witness ==
  /\ pool_pc = "adjusted"
  /\ GoodPerformance(recent_metrics)
  /\ current_workers = old_workers + INCREASE_STEP
  /\ current_workers < max_workers

(***************************************************************************)
(* C19: an adjustment leaves current_workers at                            *)
(* max(current_workers - 1, min_workers) whenever the success rate is      *)
(* < 0.7 or the average response time is > 5.0, and for every input the    *)
(* result is the one of the rule read as "(success_rate < 0.7) or          *)
(* (response_time > 5.0), each gated by current_workers > min_workers".    *)
(***************************************************************************)
PoorPerformance(recent) ==
  SuccessRateBelow(recent, 7) \/ AvgResponseTimeAbove(recent, 5)

GatedReading(current, recent) ==
  IF GoodPerformance(recent) /\ current < max_workers
  THEN min(current + INCREASE_STEP, max_workers)
  ELSE IF \/ SuccessRateBelow(recent, 7) /\ current > min_workers
          \/ AvgResponseTimeAbove(recent, 5) /\ current > min_workers
       THEN max(current - DECREASE_STEP, min_workers)
       ELSE current

C19_DecreaseWhenPoor ==
  pool_pc = "adjusted" =>
    /\ (PoorPerformance(recent_metrics) /\ ~GoodPerformance(recent_metrics))
         => current_workers = max(old_workers - DECREASE_STEP, min_workers)
    /\ current_workers = GatedReading(old_workers, recent_metrics)

\* the case where the two readings take different branches: a success rate
\* below 0.7, fast responses, and a pool already at min_workers
C19_Witness ==
  /\ pool_pc = "adjusted"
  /\ SuccessRateBelow(recent_metrics, 7)
  /\ ~AvgResponseTimeAbove(recent_metrics, 5)
  /\ old_workers = min_workers
  /\ current_workers = min_workers

(***************************************************************************)
(* C20: current_workers does not change while fewer than 3 samples are     *)
(* recorded; otherwise an adjustment takes the most recent min(10, n) of   *)
(* the n samples recorded and decides from those alone.                    *)
(***************************************************************************)
MostRecent(metrics, k) ==
  [i \in 1..k |-> metrics[Len(metrics) - k + i]]

C20_RecentSamplesOnly ==
  [][/\ Len(performance_metrics) < MIN_SAMPLES => current_workers' = current_workers
     /\ (pool_pc # "measured" /\ pool_pc' = "measured")
          => recent_metrics' =
               MostRecent(performance_metrics, min(WINDOW, Len(performance_metrics)))
     /\ (pool_pc = "measured" /\ pool_pc' = "adjusted")
          => current_workers' = GatedReading(current_workers, recent_metrics)]_vars

\* twelve samples, the two oldest failed: the adjustment saw the last ten,
\* all fast successes, and raised current_workers, which a success rate of
\* 10 out of 12 would not allow
C20_Witness ==
  /\ pool_pc = "adjusted"
  /\ Len(performance_metrics) > WINDOW
  /\ Len(recent_metrics) = WINDOW
  /\ recent_metrics = MostRecent(performance_metrics, WINDOW)
  /\ GoodPerformance(recent_metrics)
  /\ ~GoodPerformance(performance_metrics)
  /\ current_workers > old_workers

(***************************************************************************)
(* C21, as stated: get_task_progress reports as completed_segments the     *)
(* number of successful DownloadResults in the scheduler's                 *)
(* completed_downloads, so once a successful result is stored a report     *)
(* that counts it eventually follows.                                      *)
(***************************************************************************)
SuccessfulResults == {t \in DOMAIN completed_downloads : completed_downloads[t].success}

C21_ReportCountsSuccessfulResults ==
  (SuccessfulResults # {})
    ~> (progress.reported /\ progress.completed_segments = Cardinality(SuccessfulResults))

\* what the code does instead: a successful result is stored, task_results
\* of the asset is still empty, and the last report is the fall-back one,
\* with every segment counted as queued or active and none as completed
C21_ReportFromEmptyTaskResults ==
  /\ SuccessfulResults # {}
  /\ task_results = EmptyMap
  /\ progress.reported
  /\ progress.completed_segments = 0
  /\ progress.total_segments = progress.queue_size + progress.active_downloads
  /\ progress.total_segments = NumTasks

(***************************************************************************)
(* BatchDownloader._calculate_segment_priority(url, filepath,              *)
(* base_priority, index, total); exists is os.path.exists(filepath).       *)
(* index < total * 0.1 is compared as 10 * index < total: the two agree    *)
(* for every total up to 200000.                                           *)
(***************************************************************************)
\* the conversion of priority_value to a DownloadPriority
ToDownloadPriority(priority_value) ==
  IF priority_value >= URGENT THEN URGENT
  ELSE IF priority_value >= HIGH THEN HIGH
  ELSE IF priority_value >= NORMAL THEN NORMAL
  ELSE LOW

CalculateSegmentPriorityIgnoringFile(base_priority, index, total, exists) ==
  ToDownloadPriority(IF index < FIRST_SEGMENTS THEN max(base_priority, URGENT)
                     ELSE IF 10 * index < total THEN max(base_priority, HIGH)
                     ELSE base_priority)

CalculateSegmentPriority(base_priority, index, total, exists) ==
  LET raised == IF index < FIRST_SEGMENTS THEN max(base_priority, URGENT)
                ELSE IF 10 * index < total THEN max(base_priority, HIGH)
                ELSE base_priority
      priority_value == IF exists THEN max(raised - 1, LOW) ELSE raised
  IN  ToDownloadPriority(priority_value)

\* every call: each base priority, index and total, file present or not
PriorityInit ==
  /\ SchedInit
  /\ TransferIdle
  /\ ControlIdle
  /\ PoolIdle
  /\ priority_call \in [base_priority : Priorities, index : 0..MaxIndex,
                         total : 0..MaxTotal, exists : BOOLEAN, called : {FALSE},
                         out : {LOW}]
  /\ schedulers = EmptyMap
  /\ batch_call = NoBatchCall
  /\ submissions = 0
  /\ poll_pc = "idle"
  /\ global_stats = NoDownloads
  /\ slept = [t \in TaskIds |-> <<>>]
  /\ AppIdle

CalculateSegmentPriorityCall ==
  /\ ~priority_call.called
  /\ priority_call' =
       [priority_call EXCEPT
          !.called = TRUE,
          !.out = CalculateSegmentPriority(priority_call.base_priority, priority_call.index,
                                           priority_call.total, priority_call.exists)]
  /\ UNCHANGED <<schedulers, batch_call, submissions, poll_pc, global_stats>>
  /\ UNCHANGED <<schedVars, transferVars, controlVars, poolVars, historyVars, appVars>>

PriorityNext == CalculateSegmentPriorityCall

PrioritySpec == PriorityInit /\ [][PriorityNext]_vars

(***************************************************************************)
(* C22: _calculate_segment_priority returns URGENT when index < 3, the     *)
(* higher of HIGH and the base priority when 3 <= index < 0.1 * total, and *)
(* the base priority otherwise; when the destination file exists it        *)
(* returns the level just below that one, and LOW when that one is LOW.    *)
(***************************************************************************)
PriorityWithoutFile(call) ==
  IF call.index < 3 THEN URGENT
  ELSE IF 3 <= call.index /\ 10 * call.index < call.total
       THEN (IF call.base_priority = URGENT THEN URGENT ELSE HIGH)
       ELSE call.base_priority

C22_SegmentPriority ==
  priority_call.called =>
    /\ ~priority_call.exists => priority_call.out = PriorityWithoutFile(priority_call)
    /\ priority_call.exists =>
         priority_call.out = IF PriorityWithoutFile(priority_call) = LOW THEN LOW
                             ELSE PriorityWithoutFile(priority_call) - 1

\* a segment past the first three, within the first tenth, of a LOW asset,
\* whose file exists: HIGH lowered to NORMAL
C22_Witness ==
  /\ priority_call.called
  /\ priority_call.index >= 3
  /\ 10 * priority_call.index < priority_call.total
  /\ priority_call.base_priority = LOW
  /\ priority_call.exists
  /\ priority_call.out = NORMAL

(***************************************************************************)
(* BatchDownloader.add_m3u8_task.  The class body defines it twice; the    *)
(* second definition (task_id, ts_segments, priority, retry_count)         *)
(* replaces the first, the only one with an urgent_segments parameter.     *)
(* A segment k stands for the pair (url k, path k).  Of each asset's       *)
(* scheduler the model keeps its queue, the tasks handed to add_task and   *)
(* whether start() was called; its loop and its workers are not run here.  *)
(***************************************************************************)
AssetIds == {"video 1", "video 2"}

\* the base priorities given: the default and a lower one
BasePriorities == {LOW, NORMAL}

\* the paths that exist on disk when the asset is submitted
ExistingPaths == {{}, {1}}

\* ts_segments of n pairs, and every order random.shuffle can leave them in
TsSegments(n) == [k \in 1..n |-> k]

Shuffles(ts_segments) ==
  {order \in [1..Len(ts_segments) -> 1..Len(ts_segments)] :
     \A i, j \in 1..Len(ts_segments) : i # j => order[i] # order[j]}

\* SmartDownloadScheduler(...) as add_m3u8_task sees it
NewScheduler == [queue |-> <<>>, added |-> <<>>, started |-> FALSE]

\* DownloadTask(task_id=f"{task_id}_segment_{i}", url, filepath, priority,
\* retry_count)
SegmentTask(task_id, i, segment, priority, retry_count) ==
  [task_id |-> <<task_id, i>>, segment |-> segment, priority |-> priority,
   retry_count |-> retry_count]

\* the loop over enumerate(sorted_segments), from position i on (i from 0)
RECURSIVE AddSegments(_, _, _, _, _, _, _)
AddSegments(scheduler, task_id, sorted_segments, priority, retry_count, existing, i) ==
  IF i >= Len(sorted_segments) THEN scheduler
  ELSE LET segment == sorted_segments[i + 1]
           segment_priority ==
             CalculateSegmentPriority(priority, i, Len(sorted_segments),
                                      segment \in existing)
           download_task == SegmentTask(task_id, i, segment, segment_priority, retry_count)
           \* scheduler.add_task(download_task)
           after == [scheduler EXCEPT !.queue = HeapPush(scheduler.queue, download_task),
                                      !.added = Append(scheduler.added, download_task)]
       IN  AddSegments(after, task_id, sorted_segments, priority, retry_count, existing,
                       i + 1)

AddM3u8Task(task_id, ts_segments, priority, retry_count, urgent_given, urgent_segments) ==
  /\ submissions < MaxSubmissions
  /\ submissions' = submissions + 1
  /\ IF urgent_given
     THEN \* TypeError: add_m3u8_task() got an unexpected keyword argument
          /\ batch_call' =
               [task_id |-> task_id, ts_segments |-> ts_segments, sorted_segments |-> <<>>,
                priority |-> priority, urgent_given |-> TRUE,
                urgent_segments |-> urgent_segments, outcome |-> "TypeError",
                added_count |-> 0, existing |-> {}]
          /\ UNCHANGED schedulers
     ELSE \E sorted_segments \in Shuffles(ts_segments), existing \in ExistingPaths :
            LET scheduler == IF task_id \in DOMAIN schedulers THEN schedulers[task_id]
                             ELSE NewScheduler
                filled == AddSegments(scheduler, task_id, sorted_segments, priority,
                                      retry_count, existing, 0)
            IN  /\ schedulers' =
                     [a \in DOMAIN schedulers \cup {task_id} |->
                        IF a = task_id THEN [filled EXCEPT !.started = TRUE]
                        ELSE schedulers[a]]
                /\ batch_call' =
                     [task_id |-> task_id, ts_segments |-> ts_segments,
                      sorted_segments |-> sorted_segments, priority |-> priority,
                      urgent_given |-> FALSE, urgent_segments |-> {},
                      outcome |-> "returned", added_count |-> Len(sorted_segments),
                      existing |-> existing]
  /\ UNCHANGED <<priority_call, poll_pc, global_stats>>
  /\ UNCHANGED <<schedVars, transferVars, controlVars, poolVars, historyVars, appVars>>

\* an asset submitted without an urgent-index list
SubmitAsset ==
  \E task_id \in AssetIds, n \in 1..MaxSegments, priority \in BasePriorities :
    AddM3u8Task(task_id, TsSegments(n), priority, MaxRetries, FALSE, {})

\* an asset submitted with an urgent-index list
SubmitAssetWithUrgentSegments ==
  \E task_id \in AssetIds, n \in 1..MaxSegments, priority \in BasePriorities :
    \E urgent_segments \in (SUBSET (0..(n - 1))) \ {{}} :
      AddM3u8Task(task_id, TsSegments(n), priority, MaxRetries, TRUE, urgent_segments)

BatchNext == SubmitAsset \/ SubmitAssetWithUrgentSegments

BatchSpec == Init /\ [][BatchNext]_vars

(***************************************************************************)
(* C23, as stated: after add_m3u8_task was called with an urgent-index     *)
(* list, every segment whose index is in the list has been handed to the   *)
(* asset's scheduler with priority URGENT.                                 *)
(***************************************************************************)
AddedTo(task_id) ==
  IF task_id \in DOMAIN schedulers THEN schedulers[task_id].added ELSE <<>>

C23_UrgentSegmentsAreUrgent ==
  batch_call.urgent_given =>
    \A i \in batch_call.urgent_segments :
      i < Len(batch_call.ts_segments)
        => \E k \in 1..Len(AddedTo(batch_call.task_id)) :
             /\ AddedTo(batch_call.task_id)[k].task_id = <<batch_call.task_id, i>>
             /\ AddedTo(batch_call.task_id)[k].priority = URGENT

\* what the code does instead: the call with an urgent-index list raised
\* TypeError, and the asset has no scheduler and no task
C23_UrgentListRejected ==
  /\ batch_call.urgent_given
  /\ batch_call.urgent_segments = {0}
  /\ batch_call.outcome = "TypeError"
  /\ batch_call.task_id \notin DOMAIN schedulers

(***************************************************************************)
(* C24, as stated: every add_m3u8_task call with n segments returns n and  *)
(* hands the asset's scheduler one task per submitted pair, and the task   *)
(* ids ever handed to one asset's scheduler are pairwise distinct, also    *)
(* when the asset is submitted more than once.                             *)
(***************************************************************************)
\* the tasks the last call added: the last added_count ones
LastAdded ==
  LET added == AddedTo(batch_call.task_id)
  IN  SubSeq(added, Len(added) - batch_call.added_count + 1, Len(added))

OneTaskPerPair ==
  batch_call.outcome = "returned" =>
    /\ batch_call.added_count = Len(batch_call.ts_segments)
    /\ \A k \in 1..Len(batch_call.ts_segments) :
         Cardinality({j \in 1..Len(LastAdded) :
                        LastAdded[j].segment = batch_call.ts_segments[k]}) = 1

DistinctTaskIds ==
  \A a \in DOMAIN schedulers :
    \A j, k \in 1..Len(schedulers[a].added) :
      j # k => schedulers[a].added[j].task_id # schedulers[a].added[k].task_id

C24_OneTaskPerPairDistinctIds == OneTaskPerPair /\ DistinctTaskIds

\* what the code does instead: the asset was submitted twice, and its
\* scheduler was handed two tasks with the id of segment 0
C24_SameIdTwice ==
  /\ submissions = 2
  /\ \E a \in DOMAIN schedulers :
       /\ Len(schedulers[a].added) = 2
       /\ schedulers[a].added[1].task_id = <<a, 0>>
       /\ schedulers[a].added[2].task_id = <<a, 0>>

(***************************************************************************)
(* The telemetry accessors, called one after the other by a polling        *)
(* thread (the monitor thread of the asset, the user interface) while the  *)
(* scheduler runs.  get_queue_status takes no lock; the others take the    *)
(* scheduler's lock: get_active_downloads_info and get_performance_stats   *)
(* for their whole body, get_task_progress in scheduler.get_active_count.  *)
(***************************************************************************)
Accessors ==
  {"get_queue_status", "get_active_downloads_info", "get_performance_stats",
   "get_task_progress"}

TakesSchedulerLock(accessor) == accessor # "get_queue_status"

PollCall(accessor) ==
  /\ poll_pc = "idle"
  /\ poll_pc' = accessor
  /\ UNCHANGED <<priority_call, schedulers, batch_call, submissions, global_stats>>
  /\ UNCHANGED <<schedVars, transferVars, controlVars, poolVars, historyVars, appVars>>

\* `with self._lock:` is entered and left, and the accessor returns
PollReturn(accessor) ==
  /\ poll_pc = accessor
  /\ TakesSchedulerLock(accessor) => lock = "free"
  /\ poll_pc' = "idle"
  /\ progress' = IF accessor = "get_task_progress" THEN TaskProgress ELSE progress
  /\ UNCHANGED <<download_queue, active_downloads, active_download_info,
                 completed_downloads, lock, stop_event, stats, pc_loop, available_slots,
                 loop_task, wpc, attempt, ret, result, tasks, disk, calls, task_results>>
  /\ UNCHANGED <<priority_call, schedulers, batch_call, submissions, global_stats>>
  /\ UNCHANGED <<transferVars, controlVars, poolVars, historyVars, appVars>>

PollNext ==
  \/ Next
  \/ \E accessor \in Accessors : PollCall(accessor)
  \/ \E accessor \in Accessors : PollReturn(accessor)

PollSpec ==
  /\ Init /\ [][PollNext]_vars
  /\ Fairness
  /\ \A accessor \in Accessors : WF_vars(PollReturn(accessor))

(***************************************************************************)
(* C25, as stated: every call of get_queue_status,                         *)
(* get_active_downloads_info, get_performance_stats and get_task_progress  *)
(* made while transfers are in progress or completing eventually returns.  *)
(***************************************************************************)
C25_EveryPollReturns ==
  \A accessor \in Accessors : (poll_pc = accessor) ~> (poll_pc = "idle")

\* what the code does instead: get_performance_stats was called and waits
\* for the lock that a worker holds for ever, inside record_task_completion
C25_PollWaitsForWorker ==
  /\ poll_pc = "get_performance_stats"
  /\ lock = "worker"
  /\ \E t \in Submitted : wpc[t] = "in record_task_completion"

(***************************************************************************)
(* C26, as stated: the BatchDownloader's global counters account for every *)
(* segment task that reached a terminal result: from some point of every   *)
(* run on, total_downloads is the number of results stored,                *)
(* successful_downloads the number of successful ones, failed_downloads    *)
(* the number of failed ones, and total_downloads is their sum.            *)
(***************************************************************************)
GlobalCountersMatch ==
  /\ global_stats.total_downloads = Cardinality(DOMAIN completed_downloads)
  /\ global_stats.successful_downloads = Cardinality(SuccessfulResults)
  /\ global_stats.failed_downloads =
       Cardinality(DOMAIN completed_downloads \ SuccessfulResults)
  /\ global_stats.total_downloads =
       global_stats.successful_downloads + global_stats.failed_downloads

C26_GlobalCountersAccumulate == <>[]GlobalCountersMatch

\* what the code does instead: a failed result is stored, its worker never
\* gets past record_task_completion, and the global counters are all zero
C26_FailureNeverCounted ==
  /\ \E t \in Submitted :
       /\ Completed(t) /\ ~completed_downloads[t].success
       /\ wpc[t] = "in record_task_completion"
  /\ global_stats = NoDownloads

(***************************************************************************)
(* C27, as stated: an active_download_info entry exists for a task id if   *)
(* and only if the task is in active_downloads and has no result in        *)
(* completed_downloads.                                                    *)
(***************************************************************************)
HasInfo(t) == t \in DOMAIN active_download_info

C27_InfoIffRunning ==
  \A t \in TaskIds : HasInfo(t) <=> (Active(t) /\ ~Completed(t))

(***************************************************************************)
(* C27, amended: an entry exists for a task id exactly from the first      *)
(* statement of the task's worker until the worker stores the result; such *)
(* a task is neither pending nor completed, and a task in active_downloads *)
(* without a result has an entry as soon as its worker has run its first   *)
(* statement.                                                              *)
(***************************************************************************)
WorkerRuns(t) == wpc[t] \in {"attempt", "returned", "store"}

C27_InfoWhileWorkerRuns ==
  \A t \in TaskIds :
    /\ HasInfo(t) <=> WorkerRuns(t)
    /\ HasInfo(t) => (t \in Submitted /\ ~Pending(t) /\ ~Completed(t))
    /\ (Active(t) /\ ~Completed(t) /\ wpc[t] # "init") => HasInfo(t)

\* the two windows at once: one task has an entry and is not yet in
\* active_downloads, another is in active_downloads and has no entry yet
C27_Witness ==
  \E t, u \in Submitted :
    /\ HasInfo(t) /\ ~Active(t)
    /\ Active(u) /\ ~Completed(u) /\ ~HasInfo(u)

(***************************************************************************)
(* C28, as stated: once the stop signal is set while a transfer is in      *)
(* progress, the transfer writes nothing more to the temp file, does not   *)
(* report success, and does not rename the temp file to the destination.   *)
(* A worker is in its transfer from the call of _perform_download until    *)
(* it returns.                                                             *)
(***************************************************************************)
TransferEnds(t) == wpc[t] = "attempt" /\ wpc'[t] = "returned"

C28_StoppedTransferAborts ==
  [][\A t \in TaskIds :
       (stop_event /\ TransferEnds(t))
         => /\ ~ret'[t].ok
            /\ disk'[t] = disk[t]]_vars

\* what the code does instead: stop() has returned, the admission loop has
\* ended, and a transfer has returned success with the destination written
C28_TransferFinishedAfterStop ==
  /\ Stopped
  /\ pc_loop = "ended"
  /\ \E t \in Submitted :
       /\ wpc[t] = "returned"
       /\ ret[t].ok
       /\ disk[t].dest.exists /\ ~disk[t].tmp.exists

(***************************************************************************)
(* C29: in _download_worker, between failed attempt k and attempt k + 1    *)
(* (k counted from 0) the worker sleeps exactly 2^k seconds, whatever the  *)
(* kind of the failure, and it does not sleep after its last attempt: the  *)
(* sleeps of a worker are 1, 2, 4, ... and there is one sleep between two  *)
(* consecutive calls of _perform_download and none elsewhere.              *)
(***************************************************************************)
BetweenAttempts(t) == wpc[t] \in {"idle", "init", "attempt"}

C29_BackoffDoubles ==
  \A t \in TaskIds :
    /\ \A k \in 1..Len(slept[t]) : slept[t][k] = 2 ^ (k - 1)
    /\ Len(slept[t]) = IF BetweenAttempts(t) THEN Len(calls[t]) ELSE Len(calls[t]) - 1

\* a worker failed three times, by a network failure, by a local I/O error
\* and by a 404 answer in some order, slept 1 s and then 2 s, and stored its
\* result without a third sleep
C29_Witness ==
  \E t \in Submitted :
    /\ Completed(t)
    /\ ~completed_downloads[t].success
    /\ Len(calls[t]) = 3
    /\ \E i \in 1..3 : NetworkFailure(calls[t][i])
    /\ \E i \in 1..3 : LocalIOError(calls[t][i])
    /\ \E i \in 1..3 : AnsweredNotFound(calls[t][i])
    /\ slept[t] = <<1, 2>>

(***************************************************************************)
(* C30: with a temp file of N > 0 bytes and a server that ignores the      *)
(* Range header and answers 200 with M bytes, _perform_download starts     *)
(* again from zero: the temp file is truncated, the destination file is    *)
(* exactly the M bytes of the answer, with none of the N old bytes, and    *)
(* the returned downloaded_bytes is M.                                     *)
(***************************************************************************)
RangeIgnored200 ==
  /\ t_call.fn = "_perform_download"
  /\ ~t_call.before.dest.exists
  /\ t_call.before.tmp.exists
  /\ Getsize(t_call.before.tmp) > 0
  /\ t_call.resp.timeouts < MAX_ATTEMPTS
  /\ t_call.resp.status = HTTP_OK
  /\ ~t_call.resp.open_error
  /\ ~t_call.resp.stream_error

C30_RangeIgnoredRestarts ==
  RangeIgnored200
    => /\ t_call.out.ok
       /\ t_disk.dest = File(t_call.resp.body)
       /\ Getsize(t_disk.dest) = Len(t_call.resp.body)
       /\ \A i \in 1..Getsize(t_disk.dest) : t_disk.dest.data[i] # 0
       /\ ~t_disk.tmp.exists
       /\ t_call.out.downloaded_bytes = Len(t_call.resp.body)

\* the largest temp file replaced by a shorter, non-empty body
C30_Witness ==
  /\ RangeIgnored200
  /\ Getsize(t_call.before.tmp) = MaxFileLen
  /\ Len(t_call.resp.body) = 1
  /\ t_disk.dest = File(<<1>>)
  /\ t_call.out.downloaded_bytes = 1

(***************************************************************************)
(* C31: once every record_performance call has returned, also after calls  *)
(* made by several threads at once, the sample window holds at most        *)
(* METRICS_KEPT samples, and at any moment the samples it holds are the    *)
(* ones appended last, in the order of their appends.                      *)
(***************************************************************************)
NoRecordRunning == \A r \in Recorders : rec_pc[r] = "idle"

C31_WindowKeepsLatest ==
  /\ NoRecordRunning => Len(performance_metrics) <= METRICS_KEPT
  /\ \A i \in 1..Len(performance_metrics) :
       performance_metrics[i].serial = appended - Len(performance_metrics) + i

\* two threads appended to a window of METRICS_KEPT - 1 samples before
\* either tested its length, and each dropped one sample: the window holds
\* the METRICS_KEPT - 1 samples appended last
C31_Witness ==
  /\ NoRecordRunning
  /\ appended = METRICS_KEPT + 1
  /\ Len(performance_metrics) = METRICS_KEPT - 1
  /\ performance_metrics[1].serial = 3
  /\ performance_metrics[METRICS_KEPT - 1].serial = METRICS_KEPT + 1

(***************************************************************************)
(* C32, as stated: the segments at the original positions 0, 1, 2 of the   *)
(* caller's list are the ones add_m3u8_task enqueues with URGENT priority  *)
(* (a segment whose file exists is enqueued one level lower and is left    *)
(* out here).                                                              *)
(***************************************************************************)
\* the original position, from 0, of a segment in the caller's list
OriginalPosition(segment) ==
  CHOOSE k \in 0..(Len(batch_call.ts_segments) - 1) : batch_call.ts_segments[k + 1] = segment

C32_FirstSegmentsAreUrgent ==
  batch_call.outcome = "returned" =>
    \A j \in 1..Len(LastAdded) :
      LastAdded[j].segment \notin batch_call.existing
        => (LastAdded[j].priority = URGENT
              <=> OriginalPosition(LastAdded[j].segment) < FIRST_SEGMENTS)

\* what the code does instead: of four segments, none on disk, the shuffle
\* put the first of the caller's list last, and it was enqueued with the
\* base priority while the caller's last segment was enqueued URGENT
C32_FirstSegmentNotUrgent ==
  /\ batch_call.outcome = "returned"
  /\ Len(batch_call.ts_segments) = 4
  /\ batch_call.existing = {}
  /\ batch_call.sorted_segments[4] = batch_call.ts_segments[1]
  /\ batch_call.sorted_segments[1] = batch_call.ts_segments[4]
  /\ LastAdded[4].segment = batch_call.ts_segments[1]
  /\ LastAdded[4].priority = batch_call.priority
  /\ LastAdded[1].segment = batch_call.ts_segments[4]
  /\ LastAdded[1].priority = URGENT

(***************************************************************************)
(* DownloadQueue (download_queue.py) over the TaskManager                  *)
(* (task_manager.py).  The user-interface thread calls add_to_queue,       *)
(* remove_from_queue, set_max_concurrent and TaskManager.remove_task; each *)
(* started task runs _run_task_with_callback in a thread of its own.       *)
(* DownloadQueue.lock is a threading.Lock, which is not reentrant.  A      *)
(* block under the lock is one step, except the block that starts a        *)
(* thread: the new thread runs while the starter still holds the lock.     *)
(* TaskManager calls take the TaskManager's own lock and are one step      *)
(* each.                                                                   *)
(***************************************************************************)
\* main.py line 108: set_download_callback(self.download_m3u8_task)
DownloadCallbackSet == TRUE

Limits == 1..MaxLimit

RECURSIVE Without(_, _)
\* pending_tasks.remove(task_id): the first occurrence
Without(pending, t) ==
  IF pending = <<>> THEN <<>>
  ELSE IF Head(pending) = t THEN Tail(pending)
  ELSE <<Head(pending)>> \o Without(Tail(pending), t)

InPending(t) == \E i \in 1..Len(pending_tasks) : pending_tasks[i] = t

\* TaskManager.update_task_status: `if task_id in self.tasks`
UpdateTaskStatus(tm, t, status) ==
  IF tm[t] = "absent" THEN tm ELSE [tm EXCEPT ![t] = status]

\* TaskManager.set_task_error: the message and the status FAILED are set
\* together, `if task_id in self.tasks`
SetTaskError(tm, t) ==
  IF tm[t] = "absent" THEN tm ELSE [tm EXCEPT ![t] = "FAILED"]

NotQueuedUnchecked(t) == TRUE

\* add_to_queue line 39
NotQueued(t) == ~InPending(t) /\ t \notin running_tasks

NoFreeSlotNever == FALSE

\* _try_start_next_task line 65
NoFreeSlot == Cardinality(running_tasks) >= max_concurrent

\* where a thread goes when _try_start_next_task returns to its caller
AfterTry(k) == IF k = UiThread THEN "idle" ELSE "done"

\* add_to_queue(task_id), lines 38-44, by the user-interface thread for a
\* task it found in the TaskManager; line 47 follows
AddToQueue(t) ==
  /\ th_pc[UiThread] = "idle"
  /\ tm_tasks[t] # "absent"
  /\ dq_lock = {}
  /\ IF NotQueued(t)
     THEN \* one thread of the model for every task that can be started
          /\ born + Len(pending_tasks) < Cardinality(QueueWorkers)
          /\ pending_tasks' = Append(pending_tasks, t)
          /\ tm_tasks' = UpdateTaskStatus(tm_tasks, t, "PENDING")
          /\ UNCHANGED dq_ignored
     ELSE /\ dq_ignored' = TRUE
          /\ UNCHANGED <<pending_tasks, tm_tasks>>
  /\ th_pc' = [th_pc EXCEPT ![UiThread] = "try"]
  /\ UNCHANGED <<dq_lock, running_tasks, max_concurrent, th_own, th_new, born>>
  /\ UNCHANGED <<schedVars, transferVars, controlVars, poolVars, batchVars, historyVars>>
  /\ UNCHANGED <<segmentVars, statusVars, executorVars>>

\* remove_from_queue(task_id), lines 51-58
RemoveFromQueue(t) ==
  /\ th_pc[UiThread] = "idle"
  /\ tm_tasks[t] # "absent"
  /\ dq_lock = {}
  /\ pending_tasks' = IF InPending(t) THEN Without(pending_tasks, t) ELSE pending_tasks
  /\ tm_tasks' = IF t \in running_tasks THEN UpdateTaskStatus(tm_tasks, t, "STOPPED")
                 ELSE tm_tasks
  /\ UNCHANGED <<dq_lock, running_tasks, max_concurrent, th_pc, th_own, th_new,
                 dq_ignored, born>>
  /\ UNCHANGED <<schedVars, transferVars, controlVars, poolVars, batchVars, historyVars>>
  /\ UNCHANGED <<segmentVars, statusVars, executorVars>>

\* set_max_concurrent(max_concurrent), lines 135-136; line 139 follows
SetMaxConcurrent(m) ==
  /\ th_pc[UiThread] = "idle"
  /\ m # max_concurrent
  /\ dq_lock = {}
  /\ max_concurrent' = m
  /\ th_pc' = [th_pc EXCEPT ![UiThread] = "try"]
  /\ UNCHANGED <<dq_lock, running_tasks, pending_tasks, tm_tasks, th_own,
                 th_new, dq_ignored, born>>
  /\ UNCHANGED <<schedVars, transferVars, controlVars, poolVars, batchVars, historyVars>>
  /\ UNCHANGED <<segmentVars, statusVars, executorVars>>

\* TaskManager.remove_task(task_id), as main.py remove_selected_task calls
\* it: the DownloadQueue is not told
RemoveTask(t) ==
  /\ th_pc[UiThread] = "idle"
  /\ tm_tasks[t] # "absent"
  /\ tm_tasks' = [tm_tasks EXCEPT ![t] = "absent"]
  /\ UNCHANGED <<dq_lock, running_tasks, pending_tasks, max_concurrent, th_pc,
                 th_own, th_new, dq_ignored, born>>
  /\ UNCHANGED <<schedVars, transferVars, controlVars, poolVars, batchVars, historyVars>>
  /\ UNCHANGED <<segmentVars, statusVars, executorVars>>

\* _try_start_next_task, lines 63-89, by any thread: under the lock, return
\* when no slot is free or nothing is pending; else pop the head.  A head
\* that is gone or STOPPED leads to the call of line 78, made while the
\* lock is still held: the thread waits for its own lock.  Otherwise the
\* download thread is started and entered in running_tasks.
TryStartNextTask(k) ==
  /\ th_pc[k] = "try"
  /\ dq_lock = {}
  /\ IF NoFreeSlot \/ pending_tasks = <<>>
     THEN /\ th_pc' = [th_pc EXCEPT ![k] = AfterTry(k)]
          /\ dq_ignored' = IF k = UiThread THEN FALSE ELSE dq_ignored
          /\ UNCHANGED <<dq_lock, running_tasks, pending_tasks, th_own, th_new, born>>
     ELSE LET task_id == Head(pending_tasks)
          IN /\ pending_tasks' = Tail(pending_tasks)
             /\ UNCHANGED dq_ignored
             /\ IF tm_tasks[task_id] \in {"absent", "STOPPED"}
                THEN /\ dq_lock' = {k}
                     /\ th_pc' = [th_pc EXCEPT ![k] = "retry under lock"]
                     /\ UNCHANGED <<running_tasks, th_own, th_new, born>>
                ELSE IF DownloadCallbackSet
                THEN /\ dq_lock' = {k}
                     /\ born' = born + 1
                     /\ running_tasks' = running_tasks \cup {task_id}
                     /\ th_own' = [th_own EXCEPT ![born + 1] = task_id]
                     /\ th_new' = [th_new EXCEPT ![k] = task_id]
                     /\ th_pc' = [th_pc EXCEPT ![k] = "started",
                                              ![born + 1] = "callback"]
                ELSE \* no callback: the task is dropped, line 95 follows
                     UNCHANGED <<dq_lock, running_tasks, th_own, th_new, born, th_pc>>
  /\ UNCHANGED <<max_concurrent, tm_tasks>>
  /\ UNCHANGED <<schedVars, transferVars, controlVars, poolVars, batchVars, historyVars>>
  /\ UNCHANGED <<segmentVars, statusVars, executorVars>>

\* _try_start_next_task, line 92 and the end of the `with` block; line 95
\* follows
MarkDownloading(k) ==
  /\ th_pc[k] = "started"
  /\ tm_tasks' = UpdateTaskStatus(tm_tasks, th_new[k], "DOWNLOADING")
  /\ dq_lock' = {}
  /\ th_pc' = [th_pc EXCEPT ![k] = "try"]
  /\ th_new' = [th_new EXCEPT ![k] = 0]
  /\ UNCHANGED <<running_tasks, pending_tasks, max_concurrent, th_own,
                 dq_ignored, born>>
  /\ UNCHANGED <<schedVars, transferVars, controlVars, poolVars, batchVars, historyVars>>
  /\ UNCHANGED <<segmentVars, statusVars, executorVars>>

\* _run_task_with_callback, lines 99-109: the callback returns; it has set
\* the final status of its task, unless the task was stopped or removed
CallbackReturns(k) ==
  /\ th_pc[k] = "callback"
  /\ tm_tasks' = IF tm_tasks[th_own[k]] = "STOPPED" THEN tm_tasks
                 ELSE UpdateTaskStatus(tm_tasks, th_own[k], "COMPLETED")
  /\ th_pc' = [th_pc EXCEPT ![k] = "finally"]
  /\ UNCHANGED <<dq_lock, running_tasks, pending_tasks, max_concurrent, th_own,
                 th_new, dq_ignored, born>>
  /\ UNCHANGED <<schedVars, transferVars, controlVars, poolVars, batchVars, historyVars>>
  /\ UNCHANGED <<segmentVars, statusVars, executorVars>>

\* _run_task_with_callback, lines 110-112: the callback raises, and
\* TaskManager.set_task_error records the message and the status FAILED
CallbackRaises(k) ==
  /\ th_pc[k] = "callback"
  /\ tm_tasks' = SetTaskError(tm_tasks, th_own[k])
  /\ th_pc' = [th_pc EXCEPT ![k] = "finally after raise"]
  /\ UNCHANGED <<dq_lock, running_tasks, pending_tasks, max_concurrent, th_own, th_new,
                 dq_ignored, born>>
  /\ UNCHANGED <<schedVars, transferVars, controlVars, poolVars, batchVars, historyVars>>
  /\ UNCHANGED <<segmentVars, statusVars, executorVars>>

\* _run_task_with_callback, lines 115-117; line 120 follows
RunTaskFinally(k) ==
  /\ th_pc[k] \in {"finally", "finally after raise"}
  /\ dq_lock = {}
  /\ running_tasks' = running_tasks \ {th_own[k]}
  /\ th_pc' = [th_pc EXCEPT ![k] = "try"]
  /\ th_own' = [th_own EXCEPT ![k] = 0]
  /\ UNCHANGED <<dq_lock, pending_tasks, max_concurrent, tm_tasks, th_new,
                 dq_ignored, born>>
  /\ UNCHANGED <<schedVars, transferVars, controlVars, poolVars, batchVars, historyVars>>
  /\ UNCHANGED <<segmentVars, statusVars, executorVars>>

DownloadQueueInit ==
  /\ SchedInit
  /\ TransferIdle
  /\ ControlIdle
  /\ PoolIdle
  /\ BatchIdle
  /\ DownloadQueueCreated(Limits, MaxQueued, MaxStarts)
  /\ SegmentsIdle /\ StatusIdle /\ ExecutorIdle

DownloadQueueStep(k) ==
  /\ k \in QueueThreads
  /\ \/ TryStartNextTask(k)
     \/ MarkDownloading(k)
     \/ CallbackReturns(k)
     \/ CallbackRaises(k)
     \/ RunTaskFinally(k)

DownloadQueueNext ==
  \/ \E t \in QueueTaskIds : AddToQueue(t)
  \/ \E t \in QueueTaskIds : RemoveFromQueue(t)
  \/ \E m \in Limits : SetMaxConcurrent(m)
  \/ \E t \in QueueTaskIds : RemoveTask(t)
  \/ \E k \in QueueThreads : DownloadQueueStep(k)

DownloadQueueSpec == DownloadQueueInit /\ [][DownloadQueueNext]_vars

\* every thread goes on while it can; a callback eventually returns or
\* raises; the user may stop calling at any time
DownloadQueueFairness ==
  \A k \in 0..(MaxStarts + 1) : WF_vars(DownloadQueueStep(k))

DownloadQueueFairSpec == DownloadQueueSpec /\ DownloadQueueFairness

\* a queue of one running task at most, with one task more: a task can be
\* pending behind another pending task
BacklogInit ==
  /\ SchedInit
  /\ TransferIdle
  /\ ControlIdle
  /\ PoolIdle
  /\ BatchIdle
  /\ DownloadQueueCreated({1}, MaxQueued + 1, MaxStarts + 1)
  /\ SegmentsIdle /\ StatusIdle /\ ExecutorIdle

BacklogNext ==
  \/ \E t \in QueueTaskIds : AddToQueue(t)
  \/ \E t \in QueueTaskIds : RemoveFromQueue(t)
  \/ \E t \in QueueTaskIds : RemoveTask(t)
  \/ \E k \in QueueThreads : DownloadQueueStep(k)

BacklogSpec == BacklogInit /\ [][BacklogNext]_vars /\ DownloadQueueFairness

(***************************************************************************)
(* C33, as stated: in DownloadQueue the number of entries of running_tasks *)
(* never exceeds the current max_concurrent, also right after              *)
(* set_max_concurrent lowers the limit.                                    *)
(***************************************************************************)
C33_RunningWithinLimit == Cardinality(running_tasks) <= max_concurrent

(***************************************************************************)
(* C33, amended: a task is started only while fewer than max_concurrent    *)
(* tasks run, so running_tasks exceeds max_concurrent only after           *)
(* set_max_concurrent has lowered the limit below the number of running    *)
(* tasks, and no task is started until enough of them have ended.          *)
(***************************************************************************)
C33_StartsWithinLimit ==
  [][/\ Cardinality(running_tasks') > Cardinality(running_tasks)
          => Cardinality(running_tasks') <= max_concurrent'
     /\ (Cardinality(running_tasks) <= max_concurrent /\ max_concurrent' >= max_concurrent)
          => Cardinality(running_tasks') <= max_concurrent']_vars

\* as many tasks run as the limit allows, a task is pending, and no thread
\* is about to start it
C33_Witness ==
  /\ Cardinality(running_tasks) = max_concurrent
  /\ pending_tasks # <<>>
  /\ \A k \in QueueThreads : th_pc[k] \notin {"try", "started"}
  /\ tm_tasks[Head(pending_tasks)] = "PENDING"

(***************************************************************************)
(* C34, as stated: when the head of pending_tasks is gone from the         *)
(* TaskManager or STOPPED, _try_start_next_task discards it, goes on and   *)
(* returns: every call of _try_start_next_task returns to its caller.      *)
(***************************************************************************)
C34_TryStartReturns ==
  \A k \in 0..MaxStarts : (th_pc[k] = "try") ~> (th_pc[k] \in {"idle", "done"})

\* what the code does instead: a thread popped a stale head and waits, in
\* the call of line 78, for the lock it holds itself
C34_WaitsForOwnLock ==
  \E k \in QueueThreads : th_pc[k] = "retry under lock" /\ dq_lock = {k}

(***************************************************************************)
(* C35: no task id occurs twice in pending_tasks, and no task id is in     *)
(* pending_tasks and in running_tasks at once, whatever add_to_queue calls *)
(* (also repeated for one id) are interleaved with starts and completions. *)
(***************************************************************************)
C35_QueuedOnce ==
  /\ \A i, j \in 1..Len(pending_tasks) : i # j => pending_tasks[i] # pending_tasks[j]
  /\ \A i \in 1..Len(pending_tasks) : pending_tasks[i] \notin running_tasks

\* add_to_queue was called for a task that was pending or running, while
\* one task runs and another is pending
C35_Witness ==
  /\ dq_ignored
  /\ running_tasks # {}
  /\ pending_tasks # <<>>

(***************************************************************************)
(* C36, as stated: with a download callback set and callbacks that         *)
(* eventually return or raise, every task added with add_to_queue and not  *)
(* removed or stopped is eventually started.                               *)
(***************************************************************************)
Startable(t) == tm_tasks[t] \notin {"absent", "STOPPED"}

C36_PendingIsStarted ==
  \A t \in 1..(MaxQueued + 1) :
    (InPending(t) /\ Startable(t)) ~> (~InPending(t) \/ ~Startable(t))

\* what the code does instead: a task that was neither removed nor stopped
\* is pending while the lock is held for ever by a thread that popped a
\* stale head before it
C36_PendingBehindHeldLock ==
  /\ \E k \in QueueThreads : th_pc[k] = "retry under lock" /\ dq_lock = {k}
  /\ \E t \in QueueTaskIds : InPending(t) /\ Startable(t)
  /\ Cardinality(running_tasks) < max_concurrent

(***************************************************************************)
(* C37, as stated: a task whose callback raised leaves running_tasks with  *)
(* the status FAILED set by set_task_error (or STOPPED or removed, when    *)
(* the user stopped or removed it meanwhile), never with the status        *)
(* DOWNLOADING, in every interleaving of the download thread with the      *)
(* thread that started it.                                                 *)
(***************************************************************************)
C37_RaisedTaskEndsFailed ==
  [][\A k \in QueueWorkers :
       (th_pc[k] = "finally after raise" /\ th_pc'[k] = "try")
         => tm_tasks'[th_own[k]] \in {"FAILED", "STOPPED", "absent"}]_vars

\* what the code does instead: the callback raised and set_task_error set
\* FAILED before the starting thread reached line 92, which set DOWNLOADING
C37_FailureOverwritten ==
  \E k \in QueueWorkers :
    /\ th_pc[k] = "finally after raise"
    /\ tm_tasks[th_own[k]] = "DOWNLOADING"
    /\ dq_lock = {}

(***************************************************************************)
(* The traditional download of one task (_download_m3u8_traditional): one  *)
(* thread per segment is started at once, all of them sharing              *)
(* threading.Semaphore(thread_count); then every thread is joined.  A      *)
(* segment thread (_download_segment_with_optimizer) acquires a permit and *)
(* calls OptimizedDownloader.download_segment, which is handed the         *)
(* semaphore and never touches it.                                         *)
(***************************************************************************)
SegmentThreads == DOMAIN seg_pc

\* semaphore.acquire() returns: a permit is taken
Acquired(permits) == permits - 1

\* the segment thread returns: neither it nor download_segment calls
\* semaphore.release()
AfterDownload(permits) == permits

\* lines 1906-1917: the semaphore is created, no thread is started yet
TraditionalInit ==
  /\ SchedInit
  /\ TransferIdle
  /\ ControlIdle
  /\ PoolIdle
  /\ BatchIdle
  /\ QueueIdle /\ StatusIdle /\ ExecutorIdle
  /\ thread_count \in 1..MaxPermits
  /\ segment_count \in 1..MaxSegments
  /\ semaphore = thread_count
  /\ trad_pc = "spawn"
  /\ trad_status = "DOWNLOADING"
  /\ seg_pc = <<>>

\* lines 1918-1948, one turn of the loop: leave it when the task was
\* stopped or every segment has its thread, else start the next thread
SpawnSegmentThread ==
  /\ trad_pc = "spawn"
  /\ IF trad_status = "STOPPED" \/ Len(seg_pc) = segment_count
     THEN /\ trad_pc' = "join"
          /\ UNCHANGED seg_pc
     ELSE /\ seg_pc' = Append(seg_pc, "acquire")
          /\ UNCHANGED trad_pc
  /\ UNCHANGED <<thread_count, segment_count, semaphore, trad_status>>
  /\ UNCHANGED <<schedVars, transferVars, controlVars, poolVars, batchVars, historyVars>>
  /\ UNCHANGED <<queueVars, statusVars, executorVars>>

\* line 1976: semaphore.acquire() blocks until a permit is left
AcquirePermit(i) ==
  /\ i \in SegmentThreads
  /\ seg_pc[i] = "acquire"
  /\ semaphore > 0
  /\ semaphore' = Acquired(semaphore)
  /\ seg_pc' = [seg_pc EXCEPT ![i] = "download_segment"]
  /\ UNCHANGED <<thread_count, segment_count, trad_pc, trad_status>>
  /\ UNCHANGED <<schedVars, transferVars, controlVars, poolVars, batchVars, historyVars>>
  /\ UNCHANGED <<queueVars, statusVars, executorVars>>

\* lines 1980-2005: download_segment returns True or False, or raises and
\* the exception is logged; the thread ends
DownloadSegmentEnds(i) ==
  /\ i \in SegmentThreads
  /\ seg_pc[i] = "download_segment"
  /\ \E outcome \in {"returned True", "returned False", "raised"} :
       seg_pc' = [seg_pc EXCEPT ![i] = outcome]
  /\ semaphore' = AfterDownload(semaphore)
  /\ UNCHANGED <<thread_count, segment_count, trad_pc, trad_status>>
  /\ UNCHANGED <<schedVars, transferVars, controlVars, poolVars, batchVars, historyVars>>
  /\ UNCHANGED <<queueVars, statusVars, executorVars>>

Ended(i) == seg_pc[i] \in {"returned True", "returned False", "raised"}

\* lines 1951-1952: thread.join() for every thread started
JoinSegmentThreads ==
  /\ trad_pc = "join"
  /\ \A i \in SegmentThreads : Ended(i)
  /\ trad_pc' = "joined"
  /\ UNCHANGED <<thread_count, segment_count, semaphore, trad_status, seg_pc>>
  /\ UNCHANGED <<schedVars, transferVars, controlVars, poolVars, batchVars, historyVars>>
  /\ UNCHANGED <<queueVars, statusVars, executorVars>>

\* the user stops the task while it is downloaded (main.py, stop_selected_task)
StopTraditionalTask ==
  /\ trad_pc \in {"spawn", "join"}
  /\ trad_status = "DOWNLOADING"
  /\ trad_status' = "STOPPED"
  /\ UNCHANGED <<thread_count, segment_count, semaphore, trad_pc, seg_pc>>
  /\ UNCHANGED <<schedVars, transferVars, controlVars, poolVars, batchVars, historyVars>>
  /\ UNCHANGED <<queueVars, statusVars, executorVars>>

SegmentThreadStep(i) == AcquirePermit(i) \/ DownloadSegmentEnds(i)

TraditionalNext ==
  \/ SpawnSegmentThread
  \/ \E i \in 1..MaxSegments : AcquirePermit(i)
  \/ \E i \in 1..MaxSegments : DownloadSegmentEnds(i)
  \/ JoinSegmentThreads
  \/ StopTraditionalTask

\* every thread that can take a step takes it
TraditionalSpec ==
  /\ TraditionalInit /\ [][TraditionalNext]_vars
  /\ WF_vars(SpawnSegmentThread)
  /\ WF_vars(JoinSegmentThreads)
  /\ \A i \in 1..(MaxSegments + 1) : WF_vars(SegmentThreadStep(i))

(***************************************************************************)
(* C38, as stated: in the traditional download every segment thread takes  *)
(* a permit before it downloads and gives it back when its download ends:  *)
(* at most thread_count segments download at once, every segment thread    *)
(* that was started ends, and the join over all threads completes.         *)
(***************************************************************************)
Downloading == {i \in SegmentThreads : seg_pc[i] = "download_segment"}

C38_EveryThreadEndsAndJoinCompletes ==
  /\ [](Cardinality(Downloading) <= thread_count)
  /\ (trad_pc = "spawn") ~> (trad_pc = "joined")

\* what the code does instead: thread_count threads have ended without
\* giving their permit back, no permit is left, and a thread waits in
\* semaphore.acquire() while the task waits in join()
C38_PermitsNeverReturned ==
  /\ trad_pc = "join"
  /\ semaphore = 0
  /\ Cardinality({i \in SegmentThreads : Ended(i)}) = thread_count
  /\ \E i \in SegmentThreads : seg_pc[i] = "acquire"
  /\ \A i \in SegmentThreads : Ended(i) \/ seg_pc[i] = "acquire"

(***************************************************************************)
(* BatchDownloader.get_all_tasks_status and get_task_progress, called by   *)
(* one thread while assets are registered by add_m3u8_task.  Both take     *)
(* BatchDownloader._lock, a threading.Lock, for their whole body, and      *)
(* get_all_tasks_status calls get_task_progress for every asset from       *)
(* inside its locked block.                                                *)
(***************************************************************************)
StatusCaller == "status thread"

\* what get_task_progress returns for an asset no result is stored for
\* (lines 1323-1340): the queue status of its scheduler
AssetProgress(a) ==
  [total_segments |-> Len(schedulers[a].queue), completed_segments |-> 0,
   progress_percentage |-> 0, queue_size |-> Len(schedulers[a].queue)]

\* `with self._lock:` can be entered: threading.Lock is not reentrant, the
\* thread holding it waits like any other
CanEnter(holder) == holder = {}

\* add_m3u8_task registers an asset of one segment, under the lock
RegisterAsset ==
  /\ CanEnter(bd_lock)
  /\ \E task_id \in AssetIds, priority \in BasePriorities :
       AddM3u8Task(task_id, TsSegments(1), priority, MaxRetries, FALSE, {})

\* get_all_tasks_status is called (lines 1342-1344)
GetAllTasksStatusCall ==
  /\ status_pc = "idle"
  /\ status_pc' = "get_all_tasks_status"
  /\ all_status' = EmptyMap
  /\ UNCHANGED <<bd_lock, status_todo>>
  /\ UNCHANGED <<schedVars, transferVars, controlVars, poolVars, batchVars, historyVars>>
  /\ UNCHANGED <<queueVars, segmentVars, executorVars>>

\* line 1345, `with self._lock:`, and the start of the loop of line 1346
GetAllTasksStatusLock ==
  /\ status_pc = "get_all_tasks_status"
  /\ CanEnter(bd_lock)
  /\ bd_lock' = {StatusCaller}
  /\ status_todo' = DOMAIN schedulers
  /\ status_pc' = "for task_id in self.schedulers"
  /\ UNCHANGED all_status
  /\ UNCHANGED <<schedVars, transferVars, controlVars, poolVars, batchVars, historyVars>>
  /\ UNCHANGED <<queueVars, segmentVars, executorVars>>

\* lines 1346-1348, one turn of the loop: call get_task_progress for the
\* next asset, or leave the locked block and return all_status
GetAllTasksStatusLoop ==
  /\ status_pc = "for task_id in self.schedulers"
  /\ IF status_todo = {}
     THEN /\ bd_lock' = {}
          /\ status_pc' = "idle"
     ELSE /\ status_pc' = "get_task_progress in get_all_tasks_status"
          /\ UNCHANGED bd_lock
  /\ UNCHANGED <<status_todo, all_status>>
  /\ UNCHANGED <<schedVars, transferVars, controlVars, poolVars, batchVars, historyVars>>
  /\ UNCHANGED <<queueVars, segmentVars, executorVars>>

\* get_task_progress(task_id) is called by the monitor thread of the asset
\* or by the user interface
GetTaskProgressCall(a) ==
  /\ status_pc = "idle"
  /\ status_pc' = "get_task_progress"
  /\ status_todo' = {a}
  /\ UNCHANGED <<bd_lock, all_status>>
  /\ UNCHANGED <<schedVars, transferVars, controlVars, poolVars, batchVars, historyVars>>
  /\ UNCHANGED <<queueVars, segmentVars, executorVars>>

\* lines 1301-1340: the body of get_task_progress, under the lock; called
\* from get_all_tasks_status its answer is stored in all_status
GetTaskProgressLocked ==
  /\ status_pc \in {"get_task_progress", "get_task_progress in get_all_tasks_status"}
  /\ CanEnter(bd_lock)
  /\ LET a == CHOOSE x \in status_todo : TRUE
         answer == IF a \in DOMAIN schedulers THEN AssetProgress(a) ELSE EmptyMap
     IN  IF status_pc = "get_task_progress"
         THEN /\ status_pc' = "idle"
              /\ status_todo' = {}
              /\ UNCHANGED all_status
         ELSE /\ status_pc' = "for task_id in self.schedulers"
              /\ status_todo' = status_todo \ {a}
              /\ all_status' =
                   [x \in DOMAIN all_status \cup {a} |->
                      IF x = a THEN answer ELSE all_status[x]]
  /\ UNCHANGED bd_lock
  /\ UNCHANGED <<schedVars, transferVars, controlVars, poolVars, batchVars, historyVars>>
  /\ UNCHANGED <<queueVars, segmentVars, executorVars>>

StatusStep == GetAllTasksStatusLock \/ GetAllTasksStatusLoop \/ GetTaskProgressLocked

StatusNext ==
  \/ RegisterAsset
  \/ GetAllTasksStatusCall
  \/ GetAllTasksStatusLock
  \/ GetAllTasksStatusLoop
  \/ \E a \in AssetIds : GetTaskProgressCall(a)
  \/ GetTaskProgressLocked

\* the calling thread takes every step it can take
StatusSpec == Init /\ [][StatusNext]_vars /\ WF_vars(StatusStep)

(***************************************************************************)
(* C39, as stated: get_all_tasks_status returns, for any number of         *)
(* registered assets, a map with the progress of every asset: every call   *)
(* ends with the lock of the BatchDownloader released, and the map it      *)
(* returns has an entry for every registered asset.                        *)
(***************************************************************************)
C39_AllTasksStatusReturns ==
  /\ (status_pc = "get_all_tasks_status") ~> (status_pc = "idle" /\ bd_lock = {})
  /\ [][status_pc = "for task_id in self.schedulers" /\ status_pc' = "idle"
          => DOMAIN all_status' = DOMAIN schedulers']_vars

\* what the code does instead: with an asset registered, the call waits in
\* get_task_progress for the lock it took itself
C39_StatusWaitsForOwnLock ==
  /\ status_pc = "get_task_progress in get_all_tasks_status"
  /\ bd_lock = {StatusCaller}
  /\ status_todo = DOMAIN schedulers
  /\ status_todo # {}

(***************************************************************************)
(* AdaptiveThreadPool.submit called by several threads while the           *)
(* adjustment thread runs _adjust_thread_count.  submit takes no lock: it  *)
(* tests self._executor, reads it and calls its submit method, three steps *)
(* of the calling thread.  An adjustment that changes current_workers      *)
(* shuts the executor down, waiting for its jobs, and only then stores a   *)
(* new executor.  ThreadPoolExecutor.submit raises RuntimeError once       *)
(* shutdown was called.                                                    *)
(***************************************************************************)
Submitters == DOMAIN sub_pc

Adjuster == "adjustment thread"

\* ThreadPoolExecutor.submit: what becomes of the job
ExecutorSubmit(ex, shut) == IF ex \in shut THEN "RuntimeError" ELSE "running"

\* the jobs an executor still runs
RunningOn(ex) == {s \in Submitters : sub_ex[s] = ex /\ jobs[s] = "running"}

\* lines 121-128: the new value of current_workers
AdjustedWorkers(recent) ==
  IF IncreaseCondition(recent) THEN IncreaseTo(current_workers)
  ELSE IF DecreaseCondition(recent) THEN DecreaseTo(current_workers)
  ELSE current_workers

ExecutorInit ==
  /\ SchedInit
  /\ BatchIdle
  /\ TransferIdle
  /\ ControlIdle
  /\ PoolCreated({1}, {MaxWorkers})
  /\ QueueIdle /\ SegmentsIdle /\ StatusIdle
  /\ pool_lock = {}
  /\ executor = 0
  /\ ex_shutdown = {}
  /\ sub_pc = [s \in 1..MaxSubmitters |-> "idle"]
  /\ sub_ex = [s \in 1..MaxSubmitters |-> 0]
  /\ jobs = [s \in 1..MaxSubmitters |-> "none"]

\* line 95: if self._executor is None
SubmitTestExecutor(s) ==
  /\ sub_pc[s] = "idle"
  /\ sub_pc' = [sub_pc EXCEPT ![s] = IF executor = 0 THEN "start" ELSE "read executor"]
  /\ UNCHANGED <<pool_lock, executor, ex_shutdown, sub_ex, jobs>>
  /\ UNCHANGED <<schedVars, transferVars, controlVars, poolVars, batchVars, historyVars>>
  /\ UNCHANGED <<queueVars, segmentVars, statusVars>>

\* line 96, start() (lines 84-91): under the lock, the first executor is
\* created and the adjustment thread started
SubmitStart(s) ==
  /\ sub_pc[s] = "start"
  /\ pool_lock = {}
  /\ executor' = IF executor = 0 THEN 1 ELSE executor
  /\ sub_pc' = [sub_pc EXCEPT ![s] = "read executor"]
  /\ UNCHANGED <<pool_lock, ex_shutdown, sub_ex, jobs>>
  /\ UNCHANGED <<schedVars, transferVars, controlVars, poolVars, batchVars, historyVars>>
  /\ UNCHANGED <<queueVars, segmentVars, statusVars>>

\* line 97: self._executor is read
SubmitReadExecutor(s) ==
  /\ sub_pc[s] = "read executor"
  /\ sub_ex' = [sub_ex EXCEPT ![s] = executor]
  /\ sub_pc' = [sub_pc EXCEPT ![s] = "call submit"]
  /\ UNCHANGED <<pool_lock, executor, ex_shutdown, jobs>>
  /\ UNCHANGED <<schedVars, transferVars, controlVars, poolVars, batchVars, historyVars>>
  /\ UNCHANGED <<queueVars, segmentVars, statusVars>>

\* line 97: the submit method of the executor read is called
SubmitCallExecutor(s) ==
  /\ sub_pc[s] = "call submit"
  /\ jobs' = [jobs EXCEPT ![s] = ExecutorSubmit(sub_ex[s], ex_shutdown)]
  /\ sub_pc' = [sub_pc EXCEPT ![s] = "returned"]
  /\ UNCHANGED <<pool_lock, executor, ex_shutdown, sub_ex>>
  /\ UNCHANGED <<schedVars, transferVars, controlVars, poolVars, batchVars, historyVars>>
  /\ UNCHANGED <<queueVars, segmentVars, statusVars>>

\* a job accepted by an executor ends
JobEnds(s) ==
  /\ jobs[s] = "running"
  /\ jobs' = [jobs EXCEPT ![s] = "finished"]
  /\ UNCHANGED <<pool_lock, executor, ex_shutdown, sub_pc, sub_ex>>
  /\ UNCHANGED <<schedVars, transferVars, controlVars, poolVars, batchVars, historyVars>>
  /\ UNCHANGED <<queueVars, segmentVars, statusVars>>

\* the adjustment thread exists once start() has created the executor
ExecutorMeasure == executor # 0 /\ AdjustThreadCountMeasure

\* lines 119-132: under the lock, current_workers is adjusted; if it
\* changed, shutdown(wait=True) is called on the executor
AdjustUnderLock ==
  /\ pool_pc = "measured"
  /\ pool_lock = {}
  /\ old_workers' = current_workers
  /\ current_workers' = AdjustedWorkers(recent_metrics)
  /\ IF current_workers' # current_workers
     THEN /\ ex_shutdown' = ex_shutdown \cup {executor}
          /\ pool_lock' = {Adjuster}
          /\ pool_pc' = "in shutdown"
     ELSE /\ pool_pc' = "adjusted"
          /\ UNCHANGED <<ex_shutdown, pool_lock>>
  /\ UNCHANGED <<min_workers, max_workers, performance_metrics, recent_metrics,
                 rec_pc, appended>>
  /\ UNCHANGED <<executor, sub_pc, sub_ex, jobs>>
  /\ UNCHANGED <<schedVars, transferVars, controlVars, batchVars, historyVars>>
  /\ UNCHANGED <<queueVars, segmentVars, statusVars>>

\* lines 132-135: shutdown(wait=True) returns when the jobs of the
\* executor have ended; the new executor is stored and the lock released
ReplaceExecutor ==
  /\ pool_pc = "in shutdown"
  /\ RunningOn(executor) = {}
  /\ executor' = executor + 1
  /\ pool_lock' = {}
  /\ pool_pc' = "adjusted"
  /\ UNCHANGED <<ex_shutdown, sub_pc, sub_ex, jobs>>
  /\ UNCHANGED <<min_workers, max_workers, current_workers, old_workers,
                 performance_metrics, recent_metrics, rec_pc, appended>>
  /\ UNCHANGED <<schedVars, transferVars, controlVars, batchVars, historyVars>>
  /\ UNCHANGED <<queueVars, segmentVars, statusVars>>

ExecutorNext ==
  \/ \E s \in 1..MaxSubmitters : SubmitTestExecutor(s)
  \/ \E s \in 1..MaxSubmitters : SubmitStart(s)
  \/ \E s \in 1..MaxSubmitters : SubmitReadExecutor(s)
  \/ \E s \in 1..MaxSubmitters : SubmitCallExecutor(s)
  \/ \E s \in 1..MaxSubmitters : JobEnds(s)
  \/ RecordPerformance(WindowSamples, MIN_SAMPLES)
  \/ ExecutorMeasure
  \/ AdjustUnderLock
  \/ ReplaceExecutor

ExecutorSpec == ExecutorInit /\ [][ExecutorNext]_vars

(***************************************************************************)
(* C40, as stated: a job passed to submit() while the pool is running is   *)
(* always accepted, in every interleaving with _adjust_thread_count: it is *)
(* never handed to an executor that was shut down, and a job that runs     *)
(* when the limit changes goes on running until it ends.                   *)
(***************************************************************************)
C40_SubmitAlwaysAccepted ==
  /\ [](\A s \in Submitters : jobs[s] # "RuntimeError")
  /\ [][\A s \in Submitters :
          jobs[s] = "running" => jobs'[s] \in {"running", "finished"}]_vars

\* what the code does instead: a thread read the executor, the adjustment
\* shut that executor down, and the thread's submit raised RuntimeError
C40_SubmittedAfterShutdown ==
  \E s \in Submitters :
    /\ sub_pc[s] = "returned"
    /\ jobs[s] = "RuntimeError"
    /\ sub_ex[s] \in ex_shutdown

====
